---- MODULE Spec2Model ----
(***************************************************************************)
(* The Lua bridge of stack-graphs (stack-graphs/src/lua.rs): the graph,    *)
(* file, node and edge userdata and the methods registered on them.        *)
(*                                                                         *)
(* The graph userdata is a RefCell-like cell around one StackGraph: every  *)
(* method borrows it (shared or exclusive) for the duration of the call.   *)
(* A handle is the index of an element in its arena; index 0 of every      *)
(* arena is reserved, so handle h is position h of the sequences below.    *)
(***************************************************************************)
EXTENDS Integers, Sequences, FiniteSets, TLC

\* ------------------------------------------------------------------ bounds
MaxNodes == 2          \* nodes constructed through files under Spec (the singletons come on top)
MaxEdgeNodes == 1      \* nodes constructed under SpecEdges
MaxBorrowNodes == 2    \* nodes constructed under SpecBorrow
MaxIterNodes == 3      \* nodes constructed under SpecIter
MaxEdges == 1          \* edges stored in the graph
MaxShared == 1         \* shared borrows the embedding host holds at once
MaxListOps == 3        \* constructions plus edge insertions under SpecLists
MaxAttachOps == 3      \* constructions plus attachments set under SpecAttach

FileNames == {"test.py", "lib.py"}
SymbolNames == {"foo"}
SyntaxTypes == {"function"}
DebugKeys == {"k"}
DebugValues == {"v", "w"}
Precedences == {0, 1}

\* ------------------------------------------------------- options and values
None == <<>>
Some(x) == <<x>>
unwrap_or(opt, default) == IF opt = None THEN default ELSE opt[1]

\* Option<i32> arguments a script can pass as precedence
PrecedenceArgs == {None} \cup {Some(p) : p \in Precedences}

VARIABLES
    graph,      \* the StackGraph behind the graph userdata
    borrow,     \* borrow flag of the graph userdata: 0 free, n > 0 shared, -1 exclusive
    host,       \* the part of `borrow` held by the embedding host across script calls
    ret,        \* the last call: its name, receiver, operands and result
    returned,   \* history: the nodes returned by construction calls, in call order
    iter,       \* the generic `for` loop in flight: receiver, control value, nodes yielded
    iter2,      \* a second loop in flight at the same time
    history     \* history: the edges returned by edge insertions, per node the values
                \* the script passed to its attachment setters, and the file
                \* returned for each name looked up

vars == <<graph, borrow, host, ret, returned, iter, iter2, history>>

\* ---------------------------------------------------------- arena (graph.rs)
ROOT_NODE_HANDLE == 1
JUMP_TO_NODE_HANDLE == 2
ROOT_NODE_ID == 1
JUMP_TO_NODE_ID == 2

\* StackGraph::root_node() / StackGraph::jump_to_node()
root_node == ROOT_NODE_HANDLE
jump_to_node == JUMP_TO_NODE_HANDLE

\* A node: kind, file handle (0: no file), local id, symbol handle (0: none),
\* scope (None or Some(node id of the scope)) and the kind's flag
\* (is_reference / is_definition / is_exported).
MkNode(kind, file, local_id, symbol, scope, flag) ==
    [kind |-> kind, file |-> file, local_id |-> local_id, symbol |-> symbol,
     scope |-> scope, flag |-> flag]

\* StackGraph::new(): the two singleton nodes, nothing else
NewStackGraph ==
    [files |-> <<>>,
     node_id_handles |-> <<>>,
     symbols |-> <<>>,
     strings |-> <<>>,
     nodes |-> << MkNode("root", 0, ROOT_NODE_ID, 0, None, FALSE),
                  MkNode("jump_to", 0, JUMP_TO_NODE_ID, 0, None, FALSE) >>,
     outgoing_edges |-> << <<>>, <<>> >>,
     source_info |-> << None, None >>,
     debug_info |-> << None, None >>]

\* Arena::len(): the length of the backing vector, reserved slot 0 included
ArenaLen(items) == Len(items) + 1

\* StackGraph::iter_nodes(): every handle but the reserved one
iter_nodes(g) == [i \in 1..(ArenaLen(g.nodes) - 1) |-> i]

\* the position of x in seq (0 when absent)
IndexOf(seq, x) ==
    IF \E i \in 1..Len(seq) : seq[i] = x
    THEN CHOOSE i \in 1..Len(seq) : seq[i] = x
    ELSE 0

\* StackGraph::get_or_create_file
get_or_create_file(g, name) ==
    IF IndexOf(g.files, name) # 0
    THEN [graph |-> g, file |-> IndexOf(g.files, name)]
    ELSE [graph |-> [g EXCEPT !.files = Append(@, name),
                              !.node_id_handles = Append(@, <<>>)],
          file |-> Len(g.files) + 1]

\* StackGraph::add_symbol (interning)
add_symbol(g, symbol) ==
    IF IndexOf(g.symbols, symbol) # 0
    THEN [graph |-> g, symbol |-> IndexOf(g.symbols, symbol)]
    ELSE [graph |-> [g EXCEPT !.symbols = Append(@, symbol)],
          symbol |-> Len(g.symbols) + 1]

\* StackGraph::new_node_id: the next unused local id of the file
new_node_id(g, file) == [file |-> file, local_id |-> Len(g.node_id_handles[file])]

\* NodeIDHandles::try_handle_for_id
handle_for_id(g, id) ==
    IF id.local_id < Len(g.node_id_handles[id.file])
    THEN g.node_id_handles[id.file][id.local_id + 1]
    ELSE 0

\* StackGraph::add_node: None on an id collision, else the new handle
add_node(g, id, node) ==
    IF handle_for_id(g, id) # 0
    THEN [graph |-> g, node |-> None]
    ELSE [graph |-> [g EXCEPT !.nodes = Append(@, node),
                              !.outgoing_edges = Append(@, <<>>),
                              !.source_info = Append(@, None),
                              !.debug_info = Append(@, None),
                              !.node_id_handles[id.file] = Append(@, Len(g.nodes) + 1)],
          node |-> Some(Len(g.nodes) + 1)]

add_pop_symbol_node(g, id, symbol, is_definition) ==
    add_node(g, id, MkNode("pop_symbol", id.file, id.local_id, symbol, None, is_definition))

add_pop_scoped_symbol_node(g, id, symbol, is_definition) ==
    add_node(g, id, MkNode("pop_scoped_symbol", id.file, id.local_id, symbol, None, is_definition))

add_push_symbol_node(g, id, symbol, is_reference) ==
    add_node(g, id, MkNode("push_symbol", id.file, id.local_id, symbol, None, is_reference))

add_push_scoped_symbol_node(g, id, symbol, scope, is_reference) ==
    add_node(g, id, MkNode("push_scoped_symbol", id.file, id.local_id, symbol, Some(scope), is_reference))

add_drop_scopes_node(g, id) ==
    add_node(g, id, MkNode("drop_scopes", id.file, id.local_id, 0, None, FALSE))

add_scope_node(g, id, is_exported) ==
    add_node(g, id, MkNode("scope", id.file, id.local_id, 0, None, is_exported))

\* Node::is_exported_scope
is_exported_scope(node) == node.kind = "scope" /\ node.flag

\* Node::id
node_id(node) == [file |-> node.file, local_id |-> node.local_id]

\* Node::file().map(|f| f == file).unwrap_or(false)
node_in_file(node, file) == node.file # 0 /\ node.file = file

\* an edge value: source, sink, precedence
MkEdge(source, sink, precedence) ==
    [source |-> source, sink |-> sink, precedence |-> precedence]

\* StackGraph::outgoing_edges(node)
outgoing_edges(g, node) ==
    [i \in 1..Len(g.outgoing_edges[node]) |->
        MkEdge(node, g.outgoing_edges[node][i].sink, g.outgoing_edges[node][i].precedence)]

\* StackGraph::nodes_for_file(file): the handles of the file's nodes
nodes_for_file(g, file) == g.node_id_handles[file]

\* the outgoing edges of the nodes handles[i..], one node after the other
RECURSIVE edges_of_nodes(_, _, _)
edges_of_nodes(g, handles, i) ==
    IF i > Len(handles) THEN <<>>
    ELSE outgoing_edges(g, handles[i]) \o edges_of_nodes(g, handles, i + 1)

\* StackGraph::add_edge: one more edge from source, unless this very edge is stored
add_edge(g, source, sink, precedence) ==
    LET e == [sink |-> sink, precedence |-> precedence] IN
    IF IndexOf(g.outgoing_edges[source], e) # 0
    THEN g
    ELSE [g EXCEPT !.outgoing_edges[source] = Append(@, e)]

\* StackGraph::add_string (interning)
add_string(g, string) ==
    IF IndexOf(g.strings, string) # 0
    THEN [graph |-> g, string |-> IndexOf(g.strings, string)]
    ELSE [graph |-> [g EXCEPT !.strings = Append(@, string)],
          string |-> Len(g.strings) + 1]

\* a Span, reduced to its two line numbers; Span::default() is all zero
MkSpan(start_line, end_line) == [start |-> start_line, end |-> end_line]
DefaultSpan == MkSpan(0, 0)
SpanValues == {DefaultSpan, MkSpan(1, 2)}

\* SourceInfo::default(): default spans, no syntax type (string handle 0)
DefaultSourceInfo == [span |-> DefaultSpan, definiens_span |-> DefaultSpan, syntax_type |-> 0]

\* StackGraph::source_info_mut(node): the node's source info, created on first use
source_info_mut(g, node) ==
    IF g.source_info[node] = None THEN DefaultSourceInfo ELSE g.source_info[node][1]

\* StackGraph::node_debug_info_mut(node): the node's debug entries, created on first use
node_debug_info_mut(g, node) ==
    IF g.debug_info[node] = None THEN <<>> ELSE g.debug_info[node][1]

\* ------------------------------------------------- the userdata cell (mlua)
\* AnyUserData::borrow: fails while the value is exclusively borrowed
can_borrow(b) == b >= 0
\* AnyUserData::borrow_mut: fails while any borrow is outstanding
can_borrow_mut(b) == b = 0
take_ref(b) == b + 1
take_ref_mut(b) == -1
drop_ref(b) == b - 1
drop_ref_mut(b) == 0

\* ------------------------------------------------- linked proxies (mlua)
\* the graph userdata a Lua state can hold
GraphUds == {"graph_a", "graph_b"}

\* Lua::create_userdata: a userdata of a handle, no user value yet
create_userdata(type, handle) == [type |-> type, handle |-> handle, user_value |-> None]
\* AnyUserData::set_user_value / AnyUserData::user_value
set_user_value(ud, value) == [ud EXCEPT !.user_value = Some(value)]
user_value(ud) == ud.user_value[1]

\* ------------------------------------------------------------- call results
NoEdge == MkEdge(0, 0, 0)
Result(status, type, handle, edge) ==
    [status |-> status, type |-> type, handle |-> handle, edge |-> edge]
OkFile(file) == Result("Ok", "File", file, NoEdge)
OkNode(node) == Result("Ok", "Node", node, NoEdge)
OkEdge(edge) == Result("Ok", "Edge", 0, edge)
OkNil == Result("Ok", "Nil", 0, NoEdge)
Err(status) == Result(status, "Error", 0, NoEdge)

\* a value converted to Lua: a span table, a string, a table of strings
OkValue(type, value) == [status |-> "Ok", type |-> type, value |-> value]

\* an array of Edge proxies
OkEdges(edges) == [status |-> "Ok", type |-> "Edges", edges |-> edges]

\* what a method leaves behind: the graph, the borrow flag and its result
Outcome(g, b, r) == [graph |-> g, borrow |-> b, ret |-> r]

\* a construction call ends with the new node, or aborts on "Node ID collision"
expect_node(r, b) ==
    IF r.node = None
    THEN Outcome(r.graph, b, Err("Panic"))
    ELSE Outcome(r.graph, b, OkNode(r.node[1]))

\* ------------------------------------------------- methods of the graph
\* graph:file(name) content with a shared borrow of the graph
file_shared_borrow(g, b, name) ==
    IF ~can_borrow(b) THEN Outcome(g, b, Err("UserDataBorrowMutError"))
    ELSE LET b1 == take_ref(b)
             r == get_or_create_file(g, name)
         IN Outcome(r.graph, drop_ref(b1), OkFile(r.file))

\* graph:file(name) adding a file without looking the name up
file_always_creates(g, b, name) ==
    IF ~can_borrow_mut(b) THEN Outcome(g, b, Err("UserDataBorrowMutError"))
    ELSE LET b1 == take_ref_mut(b)
             g1 == [g EXCEPT !.files = Append(@, name),
                             !.node_id_handles = Append(@, <<>>)]
         IN Outcome(g1, drop_ref_mut(b1), OkFile(Len(g1.files)))

\* graph:file(name)
file(g, b, name) ==
    IF ~can_borrow_mut(b) THEN Outcome(g, b, Err("UserDataBorrowMutError"))
    ELSE LET b1 == take_ref_mut(b)
             r == get_or_create_file(g, name)
         IN Outcome(r.graph, drop_ref_mut(b1), OkFile(r.file))

\* graph:edges() walking the nodes of the files only
graph_edges_skips_singletons(g, b) ==
    IF ~can_borrow(b) THEN Outcome(g, b, Err("UserDataBorrowError"))
    ELSE LET b1 == take_ref(b)
         IN Outcome(g, drop_ref(b1), OkEdges(edges_of_nodes(g, iter_nodes(g), 3)))

\* graph:edges()
graph_edges(g, b) ==
    IF ~can_borrow(b) THEN Outcome(g, b, Err("UserDataBorrowError"))
    ELSE LET b1 == take_ref(b)
         IN Outcome(g, drop_ref(b1), OkEdges(edges_of_nodes(g, iter_nodes(g), 1)))

\* the file proxy graph:file(name) returns for a file handle
file_ud_of(graph_ud, f) == set_user_value(create_userdata("File", f), graph_ud)

\* the node proxies graph:jump_to_node() and graph:root_node() return
graph_jump_to_node_ud(graph_ud) ==
    set_user_value(create_userdata("Node", jump_to_node), graph_ud)
graph_root_node_ud(graph_ud) ==
    set_user_value(create_userdata("Node", root_node), graph_ud)

\* graph:jump_to_node() and graph:root_node(): no borrow of the graph
graph_jump_to_node(g, b) == Outcome(g, b, OkNode(jump_to_node))
graph_root_node(g, b) == Outcome(g, b, OkNode(root_node))

\* ------------------------------------------------- methods of a file
\* file:definition_node(symbol)
definition_node(g, b, f, symbol) ==
    IF ~can_borrow_mut(b) THEN Outcome(g, b, Err("UserDataBorrowMutError"))
    ELSE LET b1 == take_ref_mut(b)
             s == add_symbol(g, symbol)
             id == new_node_id(s.graph, f)
         IN expect_node(add_pop_symbol_node(s.graph, id, s.symbol, TRUE), drop_ref_mut(b1))

\* file:drop_scopes_node() wrapping the file handle in the node proxy
drop_scopes_node_wraps_file(g, b, f) ==
    IF ~can_borrow_mut(b) THEN Outcome(g, b, Err("UserDataBorrowMutError"))
    ELSE LET b1 == take_ref_mut(b)
             id == new_node_id(g, f)
             r == expect_node(add_drop_scopes_node(g, id), drop_ref_mut(b1))
         IN IF r.ret.status = "Ok" THEN Outcome(r.graph, r.borrow, OkNode(f)) ELSE r

\* file:drop_scopes_node()
drop_scopes_node(g, b, f) ==
    IF ~can_borrow_mut(b) THEN Outcome(g, b, Err("UserDataBorrowMutError"))
    ELSE LET b1 == take_ref_mut(b)
             id == new_node_id(g, f)
         IN expect_node(add_drop_scopes_node(g, id), drop_ref_mut(b1))

\* the edges of a list whose sink is a node of the file
edges_into_file(g, edges, f) ==
    SelectSeq(edges, LAMBDA edge : node_in_file(g.nodes[edge.sink], f))

\* file:edges() keeping every edge that leaves a singleton
file_edges_unfiltered(g, b, f) ==
    IF ~can_borrow(b) THEN Outcome(g, b, Err("UserDataBorrowError"))
    ELSE LET b1 == take_ref(b)
             from_root == outgoing_edges(g, root_node)
             from_jump_to == outgoing_edges(g, jump_to_node)
             from_file == edges_of_nodes(g, nodes_for_file(g, f), 1)
         IN Outcome(g, drop_ref(b1), OkEdges(from_root \o from_jump_to \o from_file))

\* file:edges()
file_edges(g, b, f) ==
    IF ~can_borrow(b) THEN Outcome(g, b, Err("UserDataBorrowError"))
    ELSE LET b1 == take_ref(b)
             from_root == edges_into_file(g, outgoing_edges(g, root_node), f)
             from_jump_to == edges_into_file(g, outgoing_edges(g, jump_to_node), f)
             from_file == edges_of_nodes(g, nodes_for_file(g, f), 1)
         IN Outcome(g, drop_ref(b1), OkEdges(from_root \o from_jump_to \o from_file))

\* file:exported_scope_node()
exported_scope_node(g, b, f) ==
    IF ~can_borrow_mut(b) THEN Outcome(g, b, Err("UserDataBorrowMutError"))
    ELSE LET b1 == take_ref_mut(b)
             id == new_node_id(g, f)
         IN expect_node(add_scope_node(g, id, TRUE), drop_ref_mut(b1))

\* file:internal_scope_node()
internal_scope_node(g, b, f) ==
    IF ~can_borrow_mut(b) THEN Outcome(g, b, Err("UserDataBorrowMutError"))
    ELSE LET b1 == take_ref_mut(b)
             id == new_node_id(g, f)
         IN expect_node(add_scope_node(g, id, FALSE), drop_ref_mut(b1))

\* file:jump_to_node() and file:root_node()
file_jump_to_node(g, b, f) == Outcome(g, b, OkNode(jump_to_node))
file_root_node(g, b, f) == Outcome(g, b, OkNode(root_node))

\* the node proxy file:jump_to_node() returns
file_jump_to_node_ud(file_ud) ==
    LET graph_ud == user_value(file_ud)
    IN set_user_value(create_userdata("Node", jump_to_node), graph_ud)

\* file:root_node() linking the node proxy to one fixed graph userdata
file_root_node_ud_fixed_graph(file_ud) ==
    set_user_value(create_userdata("Node", root_node), "graph_a")

\* the node proxy file:root_node() returns
file_root_node_ud(file_ud) ==
    LET graph_ud == user_value(file_ud)
    IN set_user_value(create_userdata("Node", root_node), graph_ud)

\* file:pop_scoped_symbol_node(symbol)
pop_scoped_symbol_node(g, b, f, symbol) ==
    IF ~can_borrow_mut(b) THEN Outcome(g, b, Err("UserDataBorrowMutError"))
    ELSE LET b1 == take_ref_mut(b)
             s == add_symbol(g, symbol)
             id == new_node_id(s.graph, f)
         IN expect_node(add_pop_scoped_symbol_node(s.graph, id, s.symbol, FALSE), drop_ref_mut(b1))

\* file:pop_symbol_node(symbol) giving every node the first local id of the file
pop_symbol_node_first_id(g, b, f, symbol) ==
    IF ~can_borrow_mut(b) THEN Outcome(g, b, Err("UserDataBorrowMutError"))
    ELSE LET b1 == take_ref_mut(b)
             s == add_symbol(g, symbol)
             id == [file |-> f, local_id |-> 0]
         IN expect_node(add_pop_symbol_node(s.graph, id, s.symbol, FALSE), drop_ref_mut(b1))

\* file:pop_symbol_node(symbol)
pop_symbol_node(g, b, f, symbol) ==
    IF ~can_borrow_mut(b) THEN Outcome(g, b, Err("UserDataBorrowMutError"))
    ELSE LET b1 == take_ref_mut(b)
             s == add_symbol(g, symbol)
             id == new_node_id(s.graph, f)
         IN expect_node(add_pop_symbol_node(s.graph, id, s.symbol, FALSE), drop_ref_mut(b1))

\* file:push_scoped_symbol_node(symbol, scope) interning the symbol before
\* it looks at the scope
push_scoped_symbol_node_interns_first(g, b, f, symbol, scope) ==
    IF ~can_borrow_mut(b) THEN Outcome(g, b, Err("UserDataBorrowMutError"))
    ELSE LET b1 == take_ref_mut(b)
             s == add_symbol(g, symbol)
         IN IF ~is_exported_scope(s.graph.nodes[scope])
            THEN Outcome(s.graph, drop_ref_mut(b1), Err("RuntimeError"))
            ELSE LET scope_id == node_id(s.graph.nodes[scope])
                     id == new_node_id(s.graph, f)
                 IN expect_node(add_push_scoped_symbol_node(s.graph, id, s.symbol, scope_id, FALSE),
                                drop_ref_mut(b1))

\* file:push_scoped_symbol_node(symbol, scope)
push_scoped_symbol_node(g, b, f, symbol, scope) ==
    IF ~can_borrow_mut(b) THEN Outcome(g, b, Err("UserDataBorrowMutError"))
    ELSE LET b1 == take_ref_mut(b) IN
         IF ~is_exported_scope(g.nodes[scope])
         THEN Outcome(g, drop_ref_mut(b1), Err("RuntimeError"))
         ELSE LET scope_id == node_id(g.nodes[scope])
                  s == add_symbol(g, symbol)
                  id == new_node_id(s.graph, f)
              IN expect_node(add_push_scoped_symbol_node(s.graph, id, s.symbol, scope_id, FALSE),
                             drop_ref_mut(b1))

\* file:push_symbol_node(symbol)
push_symbol_node(g, b, f, symbol) ==
    IF ~can_borrow_mut(b) THEN Outcome(g, b, Err("UserDataBorrowMutError"))
    ELSE LET b1 == take_ref_mut(b)
             s == add_symbol(g, symbol)
             id == new_node_id(s.graph, f)
         IN expect_node(add_push_symbol_node(s.graph, id, s.symbol, FALSE), drop_ref_mut(b1))

\* file:reference_node(symbol) adding the node without the reference flag
reference_node_unflagged(g, b, f, symbol) ==
    IF ~can_borrow_mut(b) THEN Outcome(g, b, Err("UserDataBorrowMutError"))
    ELSE LET b1 == take_ref_mut(b)
             s == add_symbol(g, symbol)
             id == new_node_id(s.graph, f)
         IN expect_node(add_push_symbol_node(s.graph, id, s.symbol, FALSE), drop_ref_mut(b1))

\* file:reference_node(symbol)
reference_node(g, b, f, symbol) ==
    IF ~can_borrow_mut(b) THEN Outcome(g, b, Err("UserDataBorrowMutError"))
    ELSE LET b1 == take_ref_mut(b)
             s == add_symbol(g, symbol)
             id == new_node_id(s.graph, f)
         IN expect_node(add_push_symbol_node(s.graph, id, s.symbol, TRUE), drop_ref_mut(b1))

\* file:scoped_definition_node(symbol)
scoped_definition_node(g, b, f, symbol) ==
    IF ~can_borrow_mut(b) THEN Outcome(g, b, Err("UserDataBorrowMutError"))
    ELSE LET b1 == take_ref_mut(b)
             s == add_symbol(g, symbol)
             id == new_node_id(s.graph, f)
         IN expect_node(add_pop_scoped_symbol_node(s.graph, id, s.symbol, TRUE), drop_ref_mut(b1))

\* file:scoped_reference_node(symbol, scope) leaving through the scope error
\* with the exclusive borrow still held
scoped_reference_node_keeps_borrow(g, b, f, symbol, scope) ==
    IF ~can_borrow_mut(b) THEN Outcome(g, b, Err("UserDataBorrowMutError"))
    ELSE LET b1 == take_ref_mut(b) IN
         IF ~is_exported_scope(g.nodes[scope])
         THEN Outcome(g, b1, Err("RuntimeError"))
         ELSE LET scope_id == node_id(g.nodes[scope])
                  s == add_symbol(g, symbol)
                  id == new_node_id(s.graph, f)
              IN expect_node(add_push_scoped_symbol_node(s.graph, id, s.symbol, scope_id, TRUE),
                             drop_ref_mut(b1))

\* file:scoped_reference_node(symbol, scope)
scoped_reference_node(g, b, f, symbol, scope) ==
    IF ~can_borrow_mut(b) THEN Outcome(g, b, Err("UserDataBorrowMutError"))
    ELSE LET b1 == take_ref_mut(b) IN
         IF ~is_exported_scope(g.nodes[scope])
         THEN Outcome(g, drop_ref_mut(b1), Err("RuntimeError"))
         ELSE LET scope_id == node_id(g.nodes[scope])
                  s == add_symbol(g, symbol)
                  id == new_node_id(s.graph, f)
              IN expect_node(add_push_scoped_symbol_node(s.graph, id, s.symbol, scope_id, TRUE),
                             drop_ref_mut(b1))

\* ------------------------------------------------- methods of a node
\* node:add_edge_from(other, precedence) with a default precedence of 1
add_edge_from_default_one(g, b, this, from, precedence_arg) ==
    LET precedence == unwrap_or(precedence_arg, 1) IN
    IF ~can_borrow_mut(b) THEN Outcome(g, b, Err("UserDataBorrowMutError"))
    ELSE LET b1 == take_ref_mut(b)
             g1 == add_edge(g, from, this, precedence)
         IN Outcome(g1, drop_ref_mut(b1), OkEdge(MkEdge(from, this, precedence)))

\* node:add_edge_from(other, precedence)
add_edge_from(g, b, this, from, precedence_arg) ==
    LET precedence == unwrap_or(precedence_arg, 0) IN
    IF ~can_borrow_mut(b) THEN Outcome(g, b, Err("UserDataBorrowMutError"))
    ELSE LET b1 == take_ref_mut(b)
             g1 == add_edge(g, from, this, precedence)
         IN Outcome(g1, drop_ref_mut(b1), OkEdge(MkEdge(from, this, precedence)))

\* node:add_edge_to(other, precedence) adding the edge in the direction of
\* add_edge_from
add_edge_to_reversed(g, b, this, to, precedence_arg) ==
    LET precedence == unwrap_or(precedence_arg, 0) IN
    IF ~can_borrow_mut(b) THEN Outcome(g, b, Err("UserDataBorrowMutError"))
    ELSE LET b1 == take_ref_mut(b)
             g1 == add_edge(g, to, this, precedence)
         IN Outcome(g1, drop_ref_mut(b1), OkEdge(MkEdge(to, this, precedence)))

\* node:add_edge_to(other, precedence) replacing the edges stored for the node
add_edge_to_replaces(g, b, this, to, precedence_arg) ==
    LET precedence == unwrap_or(precedence_arg, 0) IN
    IF ~can_borrow_mut(b) THEN Outcome(g, b, Err("UserDataBorrowMutError"))
    ELSE LET b1 == take_ref_mut(b)
             g1 == [g EXCEPT !.outgoing_edges[this] =
                                 <<[sink |-> to, precedence |-> precedence]>>]
         IN Outcome(g1, drop_ref_mut(b1), OkEdge(MkEdge(this, to, precedence)))

\* node:add_edge_to(other, precedence)
add_edge_to(g, b, this, to, precedence_arg) ==
    LET precedence == unwrap_or(precedence_arg, 0) IN
    IF ~can_borrow_mut(b) THEN Outcome(g, b, Err("UserDataBorrowMutError"))
    ELSE LET b1 == take_ref_mut(b)
             g1 == add_edge(g, this, to, precedence)
         IN Outcome(g1, drop_ref_mut(b1), OkEdge(MkEdge(this, to, precedence)))

\* node:outgoing_edges() returning the first edge only
node_outgoing_edges_first_only(g, b, node) ==
    IF ~can_borrow(b) THEN Outcome(g, b, Err("UserDataBorrowError"))
    ELSE LET b1 == take_ref(b)
         IN Outcome(g, drop_ref(b1), OkEdges(IF outgoing_edges(g, node) = <<>> THEN <<>>
                                             ELSE <<outgoing_edges(g, node)[1]>>))

\* node:outgoing_edges()
node_outgoing_edges(g, b, node) ==
    IF ~can_borrow(b) THEN Outcome(g, b, Err("UserDataBorrowError"))
    ELSE LET b1 == take_ref(b)
         IN Outcome(g, drop_ref(b1), OkEdges(outgoing_edges(g, node)))

\* node:set_debug_info(k, v)
set_debug_info(g, b, node, k, v) ==
    IF ~can_borrow_mut(b) THEN Outcome(g, b, Err("UserDataBorrowMutError"))
    ELSE LET b1 == take_ref_mut(b)
             ks == add_string(g, k)
             vs == add_string(ks.graph, v)
             entries == Append(node_debug_info_mut(vs.graph, node),
                               [key |-> ks.string, value |-> vs.string])
         IN Outcome([vs.graph EXCEPT !.debug_info[node] = Some(entries)],
                    drop_ref_mut(b1), OkNil)

\* node:set_definiens_span(span)
set_definiens_span(g, b, node, definiens_span) ==
    IF ~can_borrow_mut(b) THEN Outcome(g, b, Err("UserDataBorrowMutError"))
    ELSE LET b1 == take_ref_mut(b)
             info == [source_info_mut(g, node) EXCEPT !.definiens_span = definiens_span]
         IN Outcome([g EXCEPT !.source_info[node] = Some(info)], drop_ref_mut(b1), OkNil)

\* node:set_span(span) starting from a fresh source info
set_span_resets_info(g, b, node, span) ==
    IF ~can_borrow_mut(b) THEN Outcome(g, b, Err("UserDataBorrowMutError"))
    ELSE LET b1 == take_ref_mut(b)
             info == [DefaultSourceInfo EXCEPT !.span = span]
         IN Outcome([g EXCEPT !.source_info[node] = Some(info)], drop_ref_mut(b1), OkNil)

\* node:set_span(span)
set_span(g, b, node, span) ==
    IF ~can_borrow_mut(b) THEN Outcome(g, b, Err("UserDataBorrowMutError"))
    ELSE LET b1 == take_ref_mut(b)
             info == [source_info_mut(g, node) EXCEPT !.span = span]
         IN Outcome([g EXCEPT !.source_info[node] = Some(info)], drop_ref_mut(b1), OkNil)

\* node:set_syntax_type(syntax_type)
set_syntax_type(g, b, node, syntax_type) ==
    IF ~can_borrow_mut(b) THEN Outcome(g, b, Err("UserDataBorrowMutError"))
    ELSE LET b1 == take_ref_mut(b)
             st == add_string(g, syntax_type)
             info == [source_info_mut(st.graph, node) EXCEPT !.syntax_type = st.string]
         IN Outcome([st.graph EXCEPT !.source_info[node] = Some(info)], drop_ref_mut(b1), OkNil)

\* the Lua table left by result.set(key, value) for each entry in turn: one
\* value per key, the one set last
table_of(g, entries) ==
    LET keys == {g.strings[entries[i].key] : i \in 1..Len(entries)}
        last(k) == CHOOSE i \in 1..Len(entries) :
                      /\ g.strings[entries[i].key] = k
                      /\ \A j \in (i + 1)..Len(entries) : g.strings[entries[j].key] # k
    IN [k \in keys |-> g.strings[entries[last(k)].value]]

\* node:debug_info()
debug_info(g, b, node) ==
    IF ~can_borrow(b) THEN Outcome(g, b, Err("UserDataBorrowError"))
    ELSE LET b1 == take_ref(b)
         IN IF g.debug_info[node] = None
            THEN Outcome(g, drop_ref(b1), OkNil)
            ELSE Outcome(g, drop_ref(b1), OkValue("Table", table_of(g, g.debug_info[node][1])))

\* node:definiens_span()
definiens_span(g, b, node) ==
    IF ~can_borrow(b) THEN Outcome(g, b, Err("UserDataBorrowError"))
    ELSE LET b1 == take_ref(b)
         IN IF g.source_info[node] = None
            THEN Outcome(g, drop_ref(b1), OkNil)
            ELSE Outcome(g, drop_ref(b1), OkValue("Span", g.source_info[node][1].definiens_span))

\* node:span()
span(g, b, node) ==
    IF ~can_borrow(b) THEN Outcome(g, b, Err("UserDataBorrowError"))
    ELSE LET b1 == take_ref(b)
         IN IF g.source_info[node] = None
            THEN Outcome(g, drop_ref(b1), OkNil)
            ELSE Outcome(g, drop_ref(b1), OkValue("Span", g.source_info[node][1].span))

\* node:syntax_type()
syntax_type(g, b, node) ==
    IF ~can_borrow(b) THEN Outcome(g, b, Err("UserDataBorrowError"))
    ELSE LET b1 == take_ref(b)
         IN IF g.source_info[node] = None
            THEN Outcome(g, drop_ref(b1), OkNil)
            ELSE IF g.source_info[node][1].syntax_type = 0
            THEN Outcome(g, drop_ref(b1), OkNil)
            ELSE Outcome(g, drop_ref(b1),
                         OkValue("String", g.strings[g.source_info[node][1].syntax_type]))

\* node:local_id() reading the file part of the node id
local_id_reads_file(g, b, node) ==
    IF ~can_borrow(b) THEN Outcome(g, b, Err("UserDataBorrowError"))
    ELSE LET b1 == take_ref(b)
         IN Outcome(g, drop_ref(b1), Result("Ok", "Integer", g.nodes[node].file, NoEdge))

\* node:local_id()
local_id(g, b, node) ==
    IF ~can_borrow(b) THEN Outcome(g, b, Err("UserDataBorrowError"))
    ELSE LET b1 == take_ref(b)
         IN Outcome(g, drop_ref(b1), Result("Ok", "Integer", g.nodes[node].local_id, NoEdge))

\* ------------------------------------------------- the nodes() iterators
\* as_u32 of the previous node, 0 when the control value is nil
prev_index_of(prev_node) == IF prev_node = None THEN 0 ELSE prev_node[1]

\* graph:nodes() with an exhaustion test that forgets the reserved slot
graph_nodes_step_counts_slot(g, b, prev_node) ==
    LET prev_index == prev_index_of(prev_node) IN
    IF ~can_borrow(b) THEN Outcome(g, b, Err("UserDataBorrowError"))
    ELSE LET b1 == take_ref(b)
             node_count == ArenaLen(g.nodes)
         IN IF prev_index = node_count
            THEN Outcome(g, drop_ref(b1), OkNil)
            ELSE Outcome(g, drop_ref(b1), OkNode(prev_index + 1))

\* graph:nodes() with an exhaustion test that stops one node early
graph_nodes_step_stops_early(g, b, prev_node) ==
    LET prev_index == prev_index_of(prev_node) IN
    IF ~can_borrow(b) THEN Outcome(g, b, Err("UserDataBorrowError"))
    ELSE LET b1 == take_ref(b)
             node_count == ArenaLen(g.nodes)
         IN IF prev_index = node_count - 2
            THEN Outcome(g, drop_ref(b1), OkNil)
            ELSE Outcome(g, drop_ref(b1), OkNode(prev_index + 1))

\* graph:nodes() with one cursor shared by the loops in flight: a step
\* continues after the furthest node any of them has been given
graph_nodes_step_shared_cursor(g, b, prev_node) ==
    LET c1 == prev_index_of(iter.control)
        c2 == prev_index_of(iter2.control)
        prev_index == IF c1 > c2 THEN c1 ELSE c2
    IN
    IF ~can_borrow(b) THEN Outcome(g, b, Err("UserDataBorrowError"))
    ELSE LET b1 == take_ref(b)
             node_count == ArenaLen(g.nodes)
         IN IF prev_index >= node_count - 1
            THEN Outcome(g, drop_ref(b1), OkNil)
            ELSE Outcome(g, drop_ref(b1), OkNode(prev_index + 1))

\* one step of the iterator function graph:nodes() returns
graph_nodes_step(g, b, prev_node) ==
    LET prev_index == prev_index_of(prev_node) IN
    IF ~can_borrow(b) THEN Outcome(g, b, Err("UserDataBorrowError"))
    ELSE LET b1 == take_ref(b)
             node_count == ArenaLen(g.nodes)
         IN IF prev_index = node_count - 1
            THEN Outcome(g, drop_ref(b1), OkNil)
            ELSE Outcome(g, drop_ref(b1), OkNode(prev_index + 1))

\* the loop of file:nodes(): the first handle from node_index on whose node
\* belongs to the file; 0 at node_count; -1 when the index leaves the arena
RECURSIVE file_nodes_scan(_, _, _, _)
file_nodes_scan(g, f, node_index, node_count) ==
    IF node_index = node_count THEN 0
    ELSE IF node_index > Len(g.nodes) THEN -1
    ELSE IF node_in_file(g.nodes[node_index], f) THEN node_index
    ELSE file_nodes_scan(g, f, node_index + 1, node_count)

\* the number of handles the loop of file:nodes() examines before it returns
\* or breaks, the handle it leaves at included
RECURSIVE file_nodes_scan_visits(_, _, _, _)
file_nodes_scan_visits(g, f, node_index, node_count) ==
    IF node_index = node_count THEN 1
    ELSE IF node_index > Len(g.nodes) THEN 1
    ELSE IF node_in_file(g.nodes[node_index], f) THEN 1
    ELSE 1 + file_nodes_scan_visits(g, f, node_index + 1, node_count)

\* file:nodes() with a loop that ends one node before the last
file_nodes_step_stops_early(g, b, f, prev_node) ==
    LET prev_index == prev_index_of(prev_node) IN
    IF ~can_borrow(b) THEN Outcome(g, b, Err("UserDataBorrowError"))
    ELSE LET b1 == take_ref(b)
             node_count == ArenaLen(g.nodes) - 1
             found == file_nodes_scan(g, f, prev_index + 1, node_count)
         IN IF found = 0 THEN Outcome(g, drop_ref(b1), OkNil)
            ELSE IF found = -1 THEN Outcome(g, drop_ref(b1), Err("Panic"))
            ELSE Outcome(g, drop_ref(b1), OkNode(found))

\* file:nodes() with a loop that accepts the nodes of any file
RECURSIVE file_nodes_scan_any_file(_, _, _, _)
file_nodes_scan_any_file(g, f, node_index, node_count) ==
    IF node_index = node_count THEN 0
    ELSE IF node_index > Len(g.nodes) THEN -1
    ELSE IF g.nodes[node_index].file # 0 THEN node_index
    ELSE file_nodes_scan_any_file(g, f, node_index + 1, node_count)

file_nodes_step_any_file(g, b, f, prev_node) ==
    LET prev_index == prev_index_of(prev_node) IN
    IF ~can_borrow(b) THEN Outcome(g, b, Err("UserDataBorrowError"))
    ELSE LET b1 == take_ref(b)
             node_count == ArenaLen(g.nodes)
             found == file_nodes_scan_any_file(g, f, prev_index + 1, node_count)
         IN IF found = 0 THEN Outcome(g, drop_ref(b1), OkNil)
            ELSE IF found = -1 THEN Outcome(g, drop_ref(b1), Err("Panic"))
            ELSE Outcome(g, drop_ref(b1), OkNode(found))

\* file:nodes() with a loop that starts at the first handle on every step
file_nodes_step_restarts(g, b, f, prev_node) ==
    IF ~can_borrow(b) THEN Outcome(g, b, Err("UserDataBorrowError"))
    ELSE LET b1 == take_ref(b)
             node_count == ArenaLen(g.nodes)
             found == file_nodes_scan(g, f, 1, node_count)
         IN IF found = 0 THEN Outcome(g, drop_ref(b1), OkNil)
            ELSE IF found = -1 THEN Outcome(g, drop_ref(b1), Err("Panic"))
            ELSE Outcome(g, drop_ref(b1), OkNode(found))

\* one step of the iterator function file:nodes() returns
file_nodes_step(g, b, f, prev_node) ==
    LET prev_index == prev_index_of(prev_node) IN
    IF ~can_borrow(b) THEN Outcome(g, b, Err("UserDataBorrowError"))
    ELSE LET b1 == take_ref(b)
             node_count == ArenaLen(g.nodes)
             found == file_nodes_scan(g, f, prev_index + 1, node_count)
         IN IF found = 0 THEN Outcome(g, drop_ref(b1), OkNil)
            ELSE IF found = -1 THEN Outcome(g, drop_ref(b1), Err("Panic"))
            ELSE Outcome(g, drop_ref(b1), OkNode(found))

\* `for node in graph:nodes() do ... end` on an unchanging graph: the iterator
\* function is called with the last node it returned until it returns nil.
\* `fuel` bounds the number of calls; the loop ends "exhausted", or "cut"
\* when a call fails or the fuel runs out.
RECURSIVE graph_nodes_loop(_, _, _, _)
graph_nodes_loop(g, b, prev_node, fuel) ==
    LET r == graph_nodes_step(g, b, prev_node).ret IN
    IF r.status # "Ok" \/ fuel = 0 THEN [yielded |-> <<>>, ends |-> "cut"]
    ELSE IF r.type = "Nil" THEN [yielded |-> <<>>, ends |-> "exhausted"]
    ELSE LET rest == graph_nodes_loop(g, b, Some(r.handle), fuel - 1)
         IN [yielded |-> <<r.handle>> \o rest.yielded, ends |-> rest.ends]

RECURSIVE file_nodes_loop(_, _, _, _, _)
file_nodes_loop(g, b, f, prev_node, fuel) ==
    LET r == file_nodes_step(g, b, f, prev_node).ret IN
    IF r.status # "Ok" \/ fuel = 0 THEN [yielded |-> <<>>, ends |-> "cut"]
    ELSE IF r.type = "Nil" THEN [yielded |-> <<>>, ends |-> "exhausted"]
    ELSE LET rest == file_nodes_loop(g, b, f, Some(r.handle), fuel - 1)
         IN [yielded |-> <<r.handle>> \o rest.yielded, ends |-> rest.ends]

\* enough calls to walk a graph of this size twice over
Fuel(g) == 2 * ArenaLen(g.nodes)

\* a fresh graph:nodes() and a fresh file:nodes() loop
graph_nodes_all(g, b) == graph_nodes_loop(g, b, None, Fuel(g))
file_nodes_all(g, b, f) == file_nodes_loop(g, b, f, None, Fuel(g))

\* ------------------------------------------- the methods, on the proxies
\* The methods as Lua calls them: on userdata. gs and bs give, for each graph
\* userdata, the graph it holds and its borrow flag; a file or node proxy
\* names its graph userdata in its user value.

\* the node and edge proxies a method creates for a graph userdata
node_ud_of(graph_ud, n) == set_user_value(create_userdata("Node", n), graph_ud)
edge_ud_of(graph_ud) == set_user_value(create_userdata("Edge", 0), graph_ud)

\* a graph userdata as a value a script passes around: it has no user value
\* of its own, its name is kept in that place
graph_ud_of(graph_ud) == set_user_value(create_userdata("Graph", 0), graph_ud)

\* no userdata: a nil argument
NoProxy == create_userdata("Nil", 0)

\* what a method called on a proxy leaves behind: the graphs, the borrow
\* flags, its result, the graph userdata it worked on and the proxy returned
OutcomeUd(gs, bs, graph_ud, out, ud) ==
    [graphs |-> [gs EXCEPT ![graph_ud] = out.graph],
     borrows |-> [bs EXCEPT ![graph_ud] = out.borrow],
     ret |-> out.ret,
     ud |-> IF out.ret.status = "Ok" /\ out.ret.type # "Nil" THEN Some(ud) ELSE None]

\* AnyUserData::borrow::<T>() on a userdata of another type
TypeMismatch(gs, bs) ==
    [graphs |-> gs, borrows |-> bs, ret |-> Err("UserDataTypeMismatch"), ud |-> None]

\* graph:file(name)
graph_file_ud(gs, bs, graph_ud, name) ==
    LET out == file(gs[graph_ud], bs[graph_ud], name)
    IN OutcomeUd(gs, bs, graph_ud, out, file_ud_of(graph_ud, out.ret.handle))

\* file:definition_node(symbol)
definition_node_ud(gs, bs, this_ud, symbol) ==
    IF this_ud.type # "File" THEN TypeMismatch(gs, bs)
    ELSE LET graph_ud == user_value(this_ud)
             out == definition_node(gs[graph_ud], bs[graph_ud], this_ud.handle, symbol)
         IN OutcomeUd(gs, bs, graph_ud, out, node_ud_of(graph_ud, out.ret.handle))

\* file:exported_scope_node()
exported_scope_node_ud(gs, bs, this_ud) ==
    IF this_ud.type # "File" THEN TypeMismatch(gs, bs)
    ELSE LET graph_ud == user_value(this_ud)
             out == exported_scope_node(gs[graph_ud], bs[graph_ud], this_ud.handle)
         IN OutcomeUd(gs, bs, graph_ud, out, node_ud_of(graph_ud, out.ret.handle))

\* file:push_scoped_symbol_node(symbol, scope)
push_scoped_symbol_node_ud(gs, bs, this_ud, symbol, scope_ud) ==
    IF this_ud.type # "File" THEN TypeMismatch(gs, bs)
    ELSE LET graph_ud == user_value(this_ud) IN
         IF scope_ud.type # "Node" THEN TypeMismatch(gs, bs)
         ELSE LET out == push_scoped_symbol_node(gs[graph_ud], bs[graph_ud],
                                                 this_ud.handle, symbol, scope_ud.handle)
              IN OutcomeUd(gs, bs, graph_ud, out, node_ud_of(graph_ud, out.ret.handle))

\* file:scoped_reference_node(symbol, scope) looking at the kind of the scope
\* operand once it has interned the symbol under the exclusive borrow
scoped_reference_node_ud_checks_late(gs, bs, this_ud, symbol, scope_ud) ==
    IF this_ud.type # "File" THEN TypeMismatch(gs, bs)
    ELSE LET graph_ud == user_value(this_ud) IN
         IF ~can_borrow_mut(bs[graph_ud])
         THEN [TypeMismatch(gs, bs) EXCEPT !.ret = Err("UserDataBorrowMutError")]
         ELSE IF scope_ud.type # "Node"
         THEN TypeMismatch([gs EXCEPT ![graph_ud] = add_symbol(@, symbol).graph], bs)
         ELSE LET out == scoped_reference_node(gs[graph_ud], bs[graph_ud],
                                               this_ud.handle, symbol, scope_ud.handle)
              IN OutcomeUd(gs, bs, graph_ud, out, node_ud_of(graph_ud, out.ret.handle))

\* file:scoped_reference_node(symbol, scope)
scoped_reference_node_ud(gs, bs, this_ud, symbol, scope_ud) ==
    IF this_ud.type # "File" THEN TypeMismatch(gs, bs)
    ELSE LET graph_ud == user_value(this_ud) IN
         IF scope_ud.type # "Node" THEN TypeMismatch(gs, bs)
         ELSE LET out == scoped_reference_node(gs[graph_ud], bs[graph_ud],
                                               this_ud.handle, symbol, scope_ud.handle)
              IN OutcomeUd(gs, bs, graph_ud, out, node_ud_of(graph_ud, out.ret.handle))

\* node:add_edge_from(other, precedence) linking the Edge proxy to the graph
\* userdata of the other node
add_edge_from_ud_links_operand(gs, bs, this_ud, from_ud, precedence_arg) ==
    IF this_ud.type # "Node" \/ from_ud.type # "Node" THEN TypeMismatch(gs, bs)
    ELSE LET graph_ud == user_value(this_ud)
             out == add_edge_from(gs[graph_ud], bs[graph_ud],
                                  this_ud.handle, from_ud.handle, precedence_arg)
         IN OutcomeUd(gs, bs, graph_ud, out, edge_ud_of(user_value(from_ud)))

\* node:add_edge_from(other, precedence)
add_edge_from_ud(gs, bs, this_ud, from_ud, precedence_arg) ==
    IF this_ud.type # "Node" \/ from_ud.type # "Node" THEN TypeMismatch(gs, bs)
    ELSE LET graph_ud == user_value(this_ud)
             out == add_edge_from(gs[graph_ud], bs[graph_ud],
                                  this_ud.handle, from_ud.handle, precedence_arg)
         IN OutcomeUd(gs, bs, graph_ud, out, edge_ud_of(graph_ud))

\* node:add_edge_to(other, precedence)
add_edge_to_ud(gs, bs, this_ud, to_ud, precedence_arg) ==
    IF this_ud.type # "Node" \/ to_ud.type # "Node" THEN TypeMismatch(gs, bs)
    ELSE LET graph_ud == user_value(this_ud)
             out == add_edge_to(gs[graph_ud], bs[graph_ud],
                                this_ud.handle, to_ud.handle, precedence_arg)
         IN OutcomeUd(gs, bs, graph_ud, out, edge_ud_of(graph_ud))

\* the handle a control value holds: nil, or a userdata that must be a node
control_of(prev_node_ud) ==
    IF prev_node_ud = None THEN None ELSE Some(prev_node_ud[1].handle)

\* one step of the iterator function of graph:nodes(), on the graph userdata
graph_nodes_step_ud(gs, bs, graph_ud, prev_node_ud) ==
    IF prev_node_ud # None /\ prev_node_ud[1].type # "Node" THEN TypeMismatch(gs, bs)
    ELSE LET out == graph_nodes_step(gs[graph_ud], bs[graph_ud], control_of(prev_node_ud))
         IN OutcomeUd(gs, bs, graph_ud, out, node_ud_of(graph_ud, out.ret.handle))

\* one step of the iterator function of file:nodes(), on the file proxy
file_nodes_step_ud(gs, bs, this_ud, prev_node_ud) ==
    IF prev_node_ud # None /\ prev_node_ud[1].type # "Node" THEN TypeMismatch(gs, bs)
    ELSE IF this_ud.type # "File" THEN TypeMismatch(gs, bs)
    ELSE LET graph_ud == user_value(this_ud)
             out == file_nodes_step(gs[graph_ud], bs[graph_ud],
                                    this_ud.handle, control_of(prev_node_ud))
         IN OutcomeUd(gs, bs, graph_ud, out, node_ud_of(graph_ud, out.ret.handle))

\* ------------------------------------------------------------ the state
Call(op, recv, operand, precedence, result) ==
    [op |-> op, recv |-> recv, operand |-> operand, precedence |-> precedence,
     result |-> result]

Idle == [recv |-> -1, control |-> None, yielded |-> <<>>, exhausted |-> FALSE, seen |-> 0,
         started |-> 0]

\* what the script has set on one node: the last span, definiens span and
\* syntax type (None: never set) and the debug entries, in call order
NoAttachment == [span |-> None, definiens_span |-> None, syntax_type |-> None, debug |-> <<>>]

Init ==
    /\ graph = NewStackGraph
    /\ borrow = 0
    /\ host = 0
    /\ ret = Call("new", 0, 0, None, OkNil)
    /\ returned = <<>>
    /\ iter = Idle
    /\ iter2 = Idle
    /\ history = [edges |-> {}, attached |-> <<NoAttachment, NoAttachment>>, files |-> {}]

\* the file proxies and node proxies a script can hold
FileProxies == 1..Len(graph.files)
NodeProxies == 1..Len(graph.nodes)
\* the number of edges stored for the nodes 1..n
RECURSIVE EdgeCountUpTo(_, _)
EdgeCountUpTo(g, n) ==
    IF n = 0 THEN 0 ELSE Len(g.outgoing_edges[n]) + EdgeCountUpTo(g, n - 1)

EdgeCount(g) == EdgeCountUpTo(g, Len(g.nodes))

\* a call that is no construction: the graph, the flag and the result it leaves
Do(op, recv, operand, precedence, out) ==
    /\ graph' = out.graph
    /\ borrow' = out.borrow
    /\ ret' = Call(op, recv, operand, precedence, out.ret)
    /\ UNCHANGED <<host, returned, iter, iter2, history>>

\* a construction call on file f: the node it returns is recorded with the
\* local id that node:local_id() reports for it
Construct(op, f, operand, out) ==
    /\ graph' = out.graph
    /\ borrow' = out.borrow
    /\ ret' = Call(op, f, operand, None, out.ret)
    /\ returned' = IF out.ret.status = "Ok"
                   THEN Append(returned,
                               [node |-> out.ret.handle, file |-> f,
                                local_id |-> local_id(out.graph, out.borrow, out.ret.handle).ret.handle])
                   ELSE returned
    /\ history' = IF out.ret.status = "Ok"
                  THEN [history EXCEPT !.attached = Append(@, NoAttachment)]
                  ELSE history
    /\ UNCHANGED <<host, iter, iter2>>

CanConstruct(cap) == Len(graph.nodes) - 2 < cap

\* an edge insertion: the Edge proxy it returns is recorded
InsertEdge(op, recv, operand, precedence, out) ==
    /\ graph' = out.graph
    /\ borrow' = out.borrow
    /\ ret' = Call(op, recv, operand, precedence, out.ret)
    /\ history' = IF out.ret.status = "Ok"
                  THEN [history EXCEPT !.edges = @ \cup {out.ret.edge}]
                  ELSE history
    /\ UNCHANGED <<host, returned, iter, iter2>>

\* ------------------------------------------------------------ the actions
\* a file lookup: the name and the file returned for it are recorded
Lookup(name, out) ==
    /\ graph' = out.graph
    /\ borrow' = out.borrow
    /\ ret' = Call("file", 0, 0, None, out.ret)
    /\ history' = IF out.ret.status = "Ok"
                  THEN [history EXCEPT !.files = @ \cup {[name |-> name, file |-> out.ret.handle]}]
                  ELSE history
    /\ UNCHANGED <<host, returned, iter, iter2>>

file_call ==
    \E name \in FileNames : Lookup(name, file(graph, borrow, name))

definition_node_call(cap) ==
    /\ CanConstruct(cap)
    /\ \E f \in FileProxies, symbol \in SymbolNames :
          Construct("definition_node", f, 0, definition_node(graph, borrow, f, symbol))

pop_scoped_symbol_node_call(cap) ==
    /\ CanConstruct(cap)
    /\ \E f \in FileProxies, symbol \in SymbolNames :
          Construct("pop_scoped_symbol_node", f, 0, pop_scoped_symbol_node(graph, borrow, f, symbol))

pop_symbol_node_call(cap) ==
    /\ CanConstruct(cap)
    /\ \E f \in FileProxies, symbol \in SymbolNames :
          Construct("pop_symbol_node", f, 0, pop_symbol_node(graph, borrow, f, symbol))

push_symbol_node_call(cap) ==
    /\ CanConstruct(cap)
    /\ \E f \in FileProxies, symbol \in SymbolNames :
          Construct("push_symbol_node", f, 0, push_symbol_node(graph, borrow, f, symbol))

reference_node_call(cap) ==
    /\ CanConstruct(cap)
    /\ \E f \in FileProxies, symbol \in SymbolNames :
          Construct("reference_node", f, 0, reference_node(graph, borrow, f, symbol))

scoped_definition_node_call(cap) ==
    /\ CanConstruct(cap)
    /\ \E f \in FileProxies, symbol \in SymbolNames :
          Construct("scoped_definition_node", f, 0, scoped_definition_node(graph, borrow, f, symbol))

drop_scopes_node_call(cap) ==
    /\ CanConstruct(cap)
    /\ \E f \in FileProxies :
          Construct("drop_scopes_node", f, 0, drop_scopes_node(graph, borrow, f))

exported_scope_node_call(cap) ==
    /\ CanConstruct(cap)
    /\ \E f \in FileProxies :
          Construct("exported_scope_node", f, 0, exported_scope_node(graph, borrow, f))

internal_scope_node_call(cap) ==
    /\ CanConstruct(cap)
    /\ \E f \in FileProxies :
          Construct("internal_scope_node", f, 0, internal_scope_node(graph, borrow, f))

push_scoped_symbol_node_call(cap) ==
    /\ CanConstruct(cap)
    /\ \E f \in FileProxies, symbol \in SymbolNames, scope \in NodeProxies :
          Construct("push_scoped_symbol_node", f, scope, push_scoped_symbol_node(graph, borrow, f, symbol, scope))

scoped_reference_node_call(cap) ==
    /\ CanConstruct(cap)
    /\ \E f \in FileProxies, symbol \in SymbolNames, scope \in NodeProxies :
          Construct("scoped_reference_node", f, scope, scoped_reference_node(graph, borrow, f, symbol, scope))

add_edge_from_call ==
    /\ EdgeCount(graph) < MaxEdges
    /\ \E this \in NodeProxies, from \in NodeProxies, precedence \in PrecedenceArgs :
          InsertEdge("add_edge_from", this, from, precedence,
                     add_edge_from(graph, borrow, this, from, precedence))

add_edge_to_call ==
    /\ EdgeCount(graph) < MaxEdges
    /\ \E this \in NodeProxies, to \in NodeProxies, precedence \in PrecedenceArgs :
          InsertEdge("add_edge_to", this, to, precedence,
                     add_edge_to(graph, borrow, this, to, precedence))

\* edge insertion while fewer than cap edges are stored
add_edge_from_within(cap) ==
    /\ EdgeCount(graph) < cap
    /\ \E this \in NodeProxies, from \in NodeProxies, precedence \in PrecedenceArgs :
          InsertEdge("add_edge_from", this, from, precedence,
                     add_edge_from(graph, borrow, this, from, precedence))

add_edge_to_within(cap) ==
    /\ EdgeCount(graph) < cap
    /\ \E this \in NodeProxies, to \in NodeProxies, precedence \in PrecedenceArgs :
          InsertEdge("add_edge_to", this, to, precedence,
                     add_edge_to(graph, borrow, this, to, precedence))

\* the number of attachments the script has set
RECURSIVE AttachedCountUpTo(_)
AttachedCountUpTo(n) ==
    IF n = 0 THEN 0
    ELSE LET a == history.attached[n] IN
         Len(a.span) + Len(a.definiens_span) + Len(a.syntax_type) + Len(a.debug)
             + AttachedCountUpTo(n - 1)

AttachedCount == AttachedCountUpTo(Len(history.attached))

CanAttach == (Len(graph.nodes) - 2) + AttachedCount < MaxAttachOps

\* a setter call: the value passed is recorded for the node
Attach(op, node, out, attached) ==
    /\ graph' = out.graph
    /\ borrow' = out.borrow
    /\ ret' = Call(op, node, 0, None, out.ret)
    /\ history' = IF out.ret.status = "Ok"
                  THEN [history EXCEPT !.attached[node] = attached]
                  ELSE history
    /\ UNCHANGED <<host, returned, iter, iter2>>

set_debug_info_call ==
    /\ CanAttach
    /\ \E node \in NodeProxies, k \in DebugKeys, v \in DebugValues :
          Attach("set_debug_info", node, set_debug_info(graph, borrow, node, k, v),
                 [history.attached[node] EXCEPT !.debug = Append(@, <<k, v>>)])

set_definiens_span_call ==
    /\ CanAttach
    /\ \E node \in NodeProxies, sp \in SpanValues :
          Attach("set_definiens_span", node, set_definiens_span(graph, borrow, node, sp),
                 [history.attached[node] EXCEPT !.definiens_span = Some(sp)])

set_span_call ==
    /\ CanAttach
    /\ \E node \in NodeProxies, sp \in SpanValues :
          Attach("set_span", node, set_span(graph, borrow, node, sp),
                 [history.attached[node] EXCEPT !.span = Some(sp)])

set_syntax_type_call ==
    /\ CanAttach
    /\ \E node \in NodeProxies, t \in SyntaxTypes :
          Attach("set_syntax_type", node, set_syntax_type(graph, borrow, node, t),
                 [history.attached[node] EXCEPT !.syntax_type = Some(t)])

\* the four attachment getters
debug_info_call ==
    \E node \in NodeProxies :
        Do("debug_info", node, 0, None, debug_info(graph, borrow, node))

definiens_span_call ==
    \E node \in NodeProxies :
        Do("definiens_span", node, 0, None, definiens_span(graph, borrow, node))

span_call ==
    \E node \in NodeProxies : Do("span", node, 0, None, span(graph, borrow, node))

syntax_type_call ==
    \E node \in NodeProxies :
        Do("syntax_type", node, 0, None, syntax_type(graph, borrow, node))

\* the singleton accessors of the graph and of a file
graph_jump_to_node_call == Do("jump_to_node", 0, 0, None, graph_jump_to_node(graph, borrow))

graph_root_node_call == Do("root_node", 0, 0, None, graph_root_node(graph, borrow))

file_jump_to_node_call ==
    \E f \in FileProxies :
        Do("file_jump_to_node", f, 0, None, file_jump_to_node(graph, borrow, f))

file_root_node_call ==
    \E f \in FileProxies :
        Do("file_root_node", f, 0, None, file_root_node(graph, borrow, f))

\* the three edge listings
graph_edges_call == Do("edges", 0, 0, None, graph_edges(graph, borrow))

file_edges_call ==
    \E f \in FileProxies : Do("file_edges", f, 0, None, file_edges(graph, borrow, f))

outgoing_edges_call ==
    \E node \in NodeProxies :
        Do("outgoing_edges", node, 0, None, node_outgoing_edges(graph, borrow, node))

\* the embedding host takes a shared or an exclusive borrow of the graph
\* userdata and keeps it across script calls, or gives one back
HostBorrow ==
    /\ host >= 0 /\ host < MaxShared /\ can_borrow(borrow)
    /\ borrow' = take_ref(borrow)
    /\ host' = host + 1
    /\ UNCHANGED <<graph, ret, returned, iter, iter2, history>>

HostBorrowMut ==
    /\ host = 0 /\ can_borrow_mut(borrow)
    /\ borrow' = take_ref_mut(borrow)
    /\ host' = -1
    /\ UNCHANGED <<graph, ret, returned, iter, iter2, history>>

HostRelease ==
    /\ host # 0
    /\ borrow' = IF host = -1 THEN drop_ref_mut(borrow) ELSE drop_ref(borrow)
    /\ host' = IF host = -1 THEN 0 ELSE host - 1
    /\ UNCHANGED <<graph, ret, returned, iter, iter2, history>>

\* graph:nodes() and file:nodes() start a loop: iterator function, receiver, nil
graph_nodes_call ==
    /\ iter.recv = -1 \/ iter.exhausted
    /\ iter' = [Idle EXCEPT !.recv = 0, !.started = Len(returned)]
    /\ ret' = Call("nodes", 0, 0, None, OkNil)
    /\ UNCHANGED <<graph, borrow, host, returned, iter2, history>>

file_nodes_call ==
    /\ iter.recv = -1 \/ iter.exhausted
    /\ \E f \in FileProxies :
          /\ iter' = [Idle EXCEPT !.recv = f, !.started = Len(returned)]
          /\ ret' = Call("nodes", f, 0, None, OkNil)
    /\ UNCHANGED <<graph, borrow, host, returned, iter2, history>>

\* the loop calls the iterator function with the receiver and the control value
Step(out) ==
    /\ graph' = out.graph
    /\ borrow' = out.borrow
    /\ ret' = Call("nodes_step", iter.recv, prev_index_of(iter.control), None, out.ret)
    /\ iter' = IF out.ret.status # "Ok" THEN iter
               ELSE IF out.ret.type = "Nil"
                    THEN [iter EXCEPT !.exhausted = TRUE, !.seen = Len(returned)]
                    ELSE [iter EXCEPT !.control = Some(out.ret.handle),
                                      !.yielded = Append(@, out.ret.handle)]
    /\ UNCHANGED <<host, returned, iter2, history>>

graph_nodes_step_call ==
    /\ iter.recv = 0 /\ ~iter.exhausted
    /\ Step(graph_nodes_step(graph, borrow, iter.control))

file_nodes_step_call ==
    /\ iter.recv > 0 /\ ~iter.exhausted
    /\ Step(file_nodes_step(graph, borrow, iter.recv, iter.control))

\* ----------------------------------------------------- the specifications
\* construction: files and all eleven kinds of construction call
Next ==
    \/ file_call
    \/ definition_node_call(MaxNodes)
    \/ drop_scopes_node_call(MaxNodes)
    \/ exported_scope_node_call(MaxNodes)
    \/ internal_scope_node_call(MaxNodes)
    \/ pop_scoped_symbol_node_call(MaxNodes)
    \/ pop_symbol_node_call(MaxNodes)
    \/ push_scoped_symbol_node_call(MaxNodes)
    \/ push_symbol_node_call(MaxNodes)
    \/ reference_node_call(MaxNodes)
    \/ scoped_definition_node_call(MaxNodes)
    \/ scoped_reference_node_call(MaxNodes)

Spec == Init /\ [][Next]_vars

\* borrows: the host holds borrows of the graph userdata across the calls
NextBorrow ==
    \/ file_call
    \/ definition_node_call(MaxBorrowNodes)
    \/ exported_scope_node_call(MaxBorrowNodes)
    \/ internal_scope_node_call(MaxBorrowNodes)
    \/ push_scoped_symbol_node_call(MaxBorrowNodes)
    \/ scoped_reference_node_call(MaxBorrowNodes)
    \/ HostBorrow
    \/ HostBorrowMut
    \/ HostRelease

SpecBorrow == Init /\ [][NextBorrow]_vars

\* edges: files, definition nodes and edge insertion in both directions
NextEdges ==
    \/ file_call
    \/ definition_node_call(MaxEdgeNodes)
    \/ add_edge_from_call
    \/ add_edge_to_call

SpecEdges == Init /\ [][NextEdges]_vars

\* edge listings: files, definition nodes, edge insertion in both directions
\* (MaxListOps constructions and insertions in all), the three listings and
\* the singleton accessors
NextLists ==
    \/ file_call
    \/ definition_node_call(MaxListOps - EdgeCount(graph))
    \/ add_edge_from_within(MaxListOps - (Len(graph.nodes) - 2))
    \/ add_edge_to_within(MaxListOps - (Len(graph.nodes) - 2))
    \/ graph_edges_call
    \/ file_edges_call
    \/ outgoing_edges_call
    \/ graph_jump_to_node_call
    \/ graph_root_node_call
    \/ file_jump_to_node_call
    \/ file_root_node_call

SpecLists == Init /\ [][NextLists]_vars

\* attachments: files, definition nodes, the four setters (MaxAttachOps
\* constructions and attachments in all) and the four getters
NextAttach ==
    \/ file_call
    \/ definition_node_call(MaxAttachOps - AttachedCount)
    \/ set_debug_info_call
    \/ set_definiens_span_call
    \/ set_span_call
    \/ set_syntax_type_call
    \/ debug_info_call
    \/ definiens_span_call
    \/ span_call
    \/ syntax_type_call

SpecAttach == Init /\ [][NextAttach]_vars

\* iteration: files, definition nodes and the two nodes() loops, stepped
\* between constructions
NextIter ==
    \/ file_call
    \/ definition_node_call(MaxIterNodes)
    \/ graph_nodes_call
    \/ graph_nodes_step_call
    \/ file_nodes_call
    \/ file_nodes_step_call

SpecIter == Init /\ [][NextIter]_vars

\* ------------------------------------------------------------ the claims
\* the handles of the nodes returned by construction calls i..j, in call order
ReturnedNodes(i, j) == [k \in 1..(j - i + 1) |-> returned[i + k - 1].node]

\* the nodes returned by construction calls on file f, in call order
ReturnedBy(f) ==
    LET of_f == SelectSeq(returned, LAMBDA r : r.file = f)
    IN [k \in 1..Len(of_f) |-> of_f[k].node]

StrictlyIncreasing(seq) == \A i, j \in 1..Len(seq) : i < j => seq[i] < seq[j]

\* P holds of the outcome, in the current state, of every attachment setter
\* on every node
ForAllSetterCalls(P(_)) ==
    \A n \in NodeProxies :
        /\ \A k \in DebugKeys, v \in DebugValues : P(set_debug_info(graph, borrow, n, k, v))
        /\ \A sp \in SpanValues :
              /\ P(set_definiens_span(graph, borrow, n, sp))
              /\ P(set_span(graph, borrow, n, sp))
        /\ \A t \in SyntaxTypes : P(set_syntax_type(graph, borrow, n, t))

\* C1: after any sequence of file lookups, constructions and edge insertions,
\* a fresh graph:nodes() loop run to exhaustion yields the root node, the
\* jump-to node and every node a construction call returned, each once and in
\* handle order; edge insertion adds no node, and an attachment setter called
\* next leaves the loop's result as it is.
C1_GraphNodesYieldsEveryNode ==
    can_borrow(borrow) =>
        LET loop == graph_nodes_all(graph, borrow) IN
        /\ loop.ends = "exhausted"
        /\ loop.yielded = <<root_node, jump_to_node>> \o ReturnedNodes(1, Len(returned))
        /\ StrictlyIncreasing(loop.yielded)
        /\ ForAllSetterCalls(LAMBDA out : graph_nodes_all(out.graph, out.borrow) = loop)

\* the module example: file("test.py"), definition_node("foo"),
\* add_edge_from(root_node()) leave exactly 3 nodes
C1_Witness ==
    /\ graph.files = <<"test.py">>
    /\ graph.symbols = <<"foo">>
    /\ ret.op = "add_edge_from" /\ ret.recv = 3 /\ ret.operand = root_node
    /\ ret.result.status = "Ok"
    /\ graph.outgoing_edges[root_node] = <<[sink |-> 3, precedence |-> 0]>>
    /\ graph.nodes[3].kind = "pop_symbol" /\ graph.nodes[3].flag
    /\ borrow = 0
    /\ Len(graph_nodes_all(graph, borrow).yielded) = 3

\* C2: for every file, a fresh file:nodes() loop run to exhaustion yields
\* exactly the nodes constructed through that file, in creation order, without
\* omission or duplicate, no node of another file and neither singleton.
C2_FileNodesYieldsItsNodes ==
    can_borrow(borrow) =>
        \A f \in FileProxies :
            LET loop == file_nodes_all(graph, borrow, f) IN
            /\ loop.ends = "exhausted"
            /\ loop.yielded = ReturnedBy(f)
            /\ StrictlyIncreasing(loop.yielded)
            /\ \A i \in 1..Len(loop.yielded) :
                  loop.yielded[i] \notin {root_node, jump_to_node}

\* two files, a node of the second file constructed before one of the first
C2_Witness ==
    /\ Len(graph.files) = 2
    /\ Len(returned) = 2
    /\ returned[1].file = 2 /\ returned[2].file = 1
    /\ borrow = 0
    /\ file_nodes_all(graph, borrow, 1).yielded = <<4>>
    /\ file_nodes_all(graph, borrow, 2).yielded = <<3>>

C4_GraphNodesFilteredIsFileNodes ==
    can_borrow(borrow) =>
        \A f \in FileProxies :
            SelectSeq(graph_nodes_all(graph, borrow).yielded,
                      LAMBDA n : graph.nodes[n].file = f)
                = file_nodes_all(graph, borrow, f).yielded

\* a file holding the first of two nodes, the other node in another file
C4_Witness ==
    /\ Len(graph.nodes) = 4
    /\ graph.nodes[3].file = 1 /\ graph.nodes[4].file = 2
    /\ can_borrow(borrow)
    /\ file_nodes_all(graph, borrow, 1).yielded = <<3>>
    /\ Len(graph_nodes_all(graph, borrow).yielded) = 4

\* P holds of the outcome, in the current state, of each of the two calls that
\* take a scope, whatever the file and the symbol
ForAllScopedCalls(scope, P(_)) ==
    \A f \in FileProxies, symbol \in SymbolNames :
        /\ P(push_scoped_symbol_node(graph, borrow, f, symbol, scope))
        /\ P(scoped_reference_node(graph, borrow, f, symbol, scope))

\* C5: push_scoped_symbol_node and scoped_reference_node given a scope node
\* that is no exported scope return a runtime error and leave the graph as it
\* was: no node, edge or symbol added, no local id consumed.
C5_ScopeErrorLeavesGraph ==
    \A scope \in NodeProxies :
        ~(graph.nodes[scope].kind = "scope" /\ graph.nodes[scope].flag) =>
            ForAllScopedCalls(scope, LAMBDA out :
                /\ out.graph = graph
                /\ can_borrow_mut(borrow) => out.ret.status = "RuntimeError"
                /\ out.ret.status # "Ok")

\* scoped_reference_node was refused an internal scope node with no symbol
\* interned yet
C5_Witness ==
    /\ ret.op = "scoped_reference_node"
    /\ ret.result.status = "RuntimeError"
    /\ graph.nodes[ret.operand].kind = "scope" /\ ~graph.nodes[ret.operand].flag
    /\ graph.symbols = <<>>
    /\ Len(graph.nodes) = 3

\* P holds of the outcome, in the current state, of every call that needs
\* the exclusive borrow of the graph, whatever its arguments
ForAllExclusiveCalls(P(_)) ==
    /\ \A name \in FileNames : P(file(graph, borrow, name))
    /\ \A f \in FileProxies, symbol \in SymbolNames :
          /\ P(definition_node(graph, borrow, f, symbol))
          /\ P(pop_scoped_symbol_node(graph, borrow, f, symbol))
          /\ P(pop_symbol_node(graph, borrow, f, symbol))
          /\ P(push_symbol_node(graph, borrow, f, symbol))
          /\ P(reference_node(graph, borrow, f, symbol))
          /\ P(scoped_definition_node(graph, borrow, f, symbol))
    /\ \A f \in FileProxies :
          /\ P(drop_scopes_node(graph, borrow, f))
          /\ P(exported_scope_node(graph, borrow, f))
          /\ P(internal_scope_node(graph, borrow, f))
    /\ \A scope \in NodeProxies : ForAllScopedCalls(scope, P)
    /\ \A n \in NodeProxies, m \in NodeProxies, p \in PrecedenceArgs :
          /\ P(add_edge_from(graph, borrow, n, m, p))
          /\ P(add_edge_to(graph, borrow, n, m, p))
    /\ ForAllSetterCalls(P)

\* P holds of the outcome of every call that needs a shared borrow only
ForAllSharedCalls(P(_)) ==
    /\ P(graph_edges(graph, borrow))
    /\ \A f \in FileProxies : P(file_edges(graph, borrow, f))
    /\ \A n \in NodeProxies :
          /\ P(local_id(graph, borrow, n))
          /\ P(node_outgoing_edges(graph, borrow, n))
          /\ P(debug_info(graph, borrow, n))
          /\ P(definiens_span(graph, borrow, n))
          /\ P(span(graph, borrow, n))
          /\ P(syntax_type(graph, borrow, n))
    /\ \A prev \in {None} \cup {Some(n) : n \in NodeProxies} :
          /\ P(graph_nodes_step(graph, borrow, prev))
          /\ \A f \in FileProxies : P(file_nodes_step(graph, borrow, f, prev))

BorrowErrors == {"UserDataBorrowMutError", "UserDataBorrowError"}

\* C6: a call that needs the exclusive borrow, made while a shared or an
\* exclusive borrow of the graph is outstanding, returns the borrow-conflict
\* error and leaves the graph as it was.
C6_ExclusiveCallRefused ==
    borrow # 0 =>
        ForAllExclusiveCalls(LAMBDA out :
            /\ out.ret.status = "UserDataBorrowMutError"
            /\ out.graph = graph)

\* a construction call was refused while the host held a shared borrow
C6_Witness ==
    /\ ret.op = "definition_node"
    /\ ret.result.status = "UserDataBorrowMutError"
    /\ borrow = 1 /\ host = 1
    /\ Len(graph.nodes) = 3

\* C7: every call gives back the borrow it took, on the success path and on
\* every error path; between two calls the only borrows outstanding are the
\* host's, so with none of those no call meets a borrow conflict.
C7_BorrowReleased ==
    /\ borrow = host
    /\ ForAllExclusiveCalls(LAMBDA out :
          /\ out.borrow = borrow
          /\ host = 0 => out.ret.status \notin BorrowErrors)
    /\ ForAllSharedCalls(LAMBDA out :
          /\ out.borrow = borrow
          /\ host = 0 => out.ret.status \notin BorrowErrors)

\* push_scoped_symbol_node left through the scope error, and the flag is free
C7_Witness ==
    /\ ret.op = "push_scoped_symbol_node"
    /\ ret.result.status = "RuntimeError"
    /\ borrow = 0 /\ host = 0
    /\ \E f \in FileProxies :
          definition_node(graph, borrow, f, "foo").ret.status = "Ok"

\* C8: once a graph:nodes() loop has reached exhaustion and further nodes
\* have been constructed, a fresh loop yields the nodes the first one yielded,
\* then the new nodes, then ends.
C8_FreshLoopSeesNewNodes ==
    (iter.recv = 0 /\ iter.exhausted /\ can_borrow(borrow)) =>
        LET loop == graph_nodes_all(graph, borrow) IN
        /\ loop.ends = "exhausted"
        /\ loop.yielded = iter.yielded \o ReturnedNodes(iter.seen + 1, Len(returned))

\* a loop exhausted after one constructed node, one more constructed since
C8_Witness ==
    /\ iter.recv = 0 /\ iter.exhausted
    /\ iter.yielded = <<1, 2, 3>>
    /\ iter.seen = 1 /\ Len(returned) = 2
    /\ graph_nodes_all(graph, borrow).yielded = <<1, 2, 3, 4>>

\* C9: a.add_edge_to(b, p) and b.add_edge_from(a, p) return equal edges
\* (source a, sink b, precedence p) and leave the same graph.
C9_EdgeDirectionsAgree ==
    \A a \in NodeProxies, b \in NodeProxies, p \in PrecedenceArgs :
        LET to == add_edge_to(graph, borrow, a, b, p)
            from == add_edge_from(graph, borrow, b, a, p)
        IN /\ to.ret = from.ret
           /\ to.graph = from.graph
           /\ can_borrow_mut(borrow) =>
                 /\ to.ret.status = "Ok"
                 /\ to.ret.edge.source = a /\ to.ret.edge.sink = b
                 /\ p # None => to.ret.edge.precedence = p[1]

\* add_edge_to stored an edge of precedence 1 between two different nodes
C9_Witness ==
    /\ ret.op = "add_edge_to" /\ ret.result.status = "Ok"
    /\ ret.recv # ret.operand
    /\ ret.precedence = Some(1)
    /\ ret.result.edge = MkEdge(ret.recv, ret.operand, 1)
    /\ graph.outgoing_edges[ret.recv] = <<[sink |-> ret.operand, precedence |-> 1]>>

\* C10: add_edge_from and add_edge_to without a precedence behave as with
\* precedence 0: the edge returned and the edge stored have precedence 0.
C10_DefaultPrecedenceIsZero ==
    \A this \in NodeProxies, other \in NodeProxies :
        LET from == add_edge_from(graph, borrow, this, other, None)
            to == add_edge_to(graph, borrow, this, other, None)
        IN /\ from = add_edge_from(graph, borrow, this, other, Some(0))
           /\ to = add_edge_to(graph, borrow, this, other, Some(0))
           /\ can_borrow_mut(borrow) =>
                 /\ from.ret.edge.precedence = 0
                 /\ to.ret.edge.precedence = 0
                 /\ IndexOf(from.graph.outgoing_edges[other],
                            [sink |-> this, precedence |-> 0]) # 0
                 /\ IndexOf(to.graph.outgoing_edges[this],
                            [sink |-> other, precedence |-> 0]) # 0

\* add_edge_from was called without a precedence and stored an edge of precedence 0
C10_Witness ==
    /\ ret.op = "add_edge_from" /\ ret.result.status = "Ok"
    /\ ret.precedence = None
    /\ ret.result.edge.precedence = 0
    /\ graph.outgoing_edges[ret.operand] = <<[sink |-> ret.recv, precedence |-> 0]>>

\* the set of the elements of a sequence
Range(seq) == {seq[i] : i \in 1..Len(seq)}

\* no element occurs twice in the sequence
NoDuplicates(seq) == \A i, j \in 1..Len(seq) : seq[i] = seq[j] => i = j

\* the file a construction call was made on to get the node (0: a singleton)
FileOf(node) ==
    IF \E i \in 1..Len(returned) : returned[i].node = node
    THEN returned[CHOOSE i \in 1..Len(returned) : returned[i].node = node].file
    ELSE 0

\* C11: every add_edge_from / add_edge_to call stores one edge equal to the
\* Edge proxy it returns: right after the call the source node's
\* outgoing_edges() and the graph's edges() hold that edge, and at any time a
\* node's outgoing_edges() holds exactly the edges the calls have returned
\* with that source, each once, so two edges between the same two nodes with
\* different precedences are both listed.
C11_EdgeInserted ==
    /\ (ret.op \in {"add_edge_from", "add_edge_to"} /\ ret.result.status = "Ok") =>
          LET e == ret.result.edge IN
          /\ e.source = IF ret.op = "add_edge_to" THEN ret.recv ELSE ret.operand
          /\ e.sink = IF ret.op = "add_edge_to" THEN ret.operand ELSE ret.recv
          /\ e \in Range(node_outgoing_edges(graph, borrow, e.source).ret.edges)
          /\ e \in Range(graph_edges(graph, borrow).ret.edges)
    /\ \A n \in NodeProxies :
          LET listed == node_outgoing_edges(graph, borrow, n).ret.edges IN
          /\ NoDuplicates(listed)
          /\ Range(listed) = {e \in history.edges : e.source = n}

\* an add_edge_to call has stored a second edge between the same two nodes,
\* with another precedence, and the source node lists both
C11_Witness ==
    /\ ret.op = "add_edge_to" /\ ret.result.status = "Ok"
    /\ LET e == ret.result.edge
           listed == node_outgoing_edges(graph, borrow, e.source).ret.edges
       IN /\ Len(listed) = 2
          /\ e \in Range(listed)
          /\ \E d \in Range(listed) : d.sink = e.sink /\ d.precedence # e.precedence

\* C16: for every file F, F:edges() lists exactly the inserted edges that go
\* from root or jump-to to a node of F or that start at a node of F, each once;
\* no edge between the singletons or into another file is listed.
C16_FileEdges ==
    \A f \in FileProxies :
        LET listed == file_edges(graph, borrow, f).ret.edges IN
        /\ Range(listed) =
              {e \in history.edges :
                  \/ e.source \in {root_node, jump_to_node} /\ FileOf(e.sink) = f
                  \/ FileOf(e.source) = f}
        /\ NoDuplicates(listed)

\* file:edges() has returned one edge from the root node into the file while
\* the graph holds another edge, which the file does not list
C16_Witness ==
    /\ ret.op = "file_edges" /\ ret.result.status = "Ok"
    /\ Len(ret.result.edges) = 1
    /\ ret.result.edges[1].source = root_node
    /\ FileOf(ret.result.edges[1].sink) = ret.recv
    /\ Cardinality(history.edges) = 2

\* C17: graph:edges() lists exactly the inserted edges, each once, node after
\* node in handle order, the singletons included: its part with source n is
\* what n:outgoing_edges() returns.
C17_GraphEdges ==
    LET listed == graph_edges(graph, borrow).ret.edges IN
    /\ Range(listed) = history.edges
    /\ NoDuplicates(listed)
    /\ \A i, j \in 1..Len(listed) : i < j => listed[i].source <= listed[j].source
    /\ \A n \in NodeProxies :
          SelectSeq(listed, LAMBDA e : e.source = n)
              = node_outgoing_edges(graph, borrow, n).ret.edges

\* graph:edges() has returned an edge leaving the root node followed by an
\* edge leaving a node of a file
C17_Witness ==
    /\ ret.op = "edges" /\ ret.result.status = "Ok"
    /\ Len(ret.result.edges) = 2
    /\ ret.result.edges[1].source = root_node
    /\ ret.result.edges[2].source > jump_to_node

\* C12: for every node, once the script has set the span, the definiens span
\* or the syntax type, the getter returns the value passed to the last such
\* setter call on that node, whatever was set on other nodes, set otherwise on
\* this node or constructed since.
C12_GetterReturnsLastSet ==
    \A n \in NodeProxies :
        LET a == history.attached[n] IN
        /\ a.span # None => span(graph, borrow, n).ret = OkValue("Span", a.span[1])
        /\ a.definiens_span # None =>
              definiens_span(graph, borrow, n).ret = OkValue("Span", a.definiens_span[1])
        /\ a.syntax_type # None =>
              syntax_type(graph, borrow, n).ret = OkValue("String", a.syntax_type[1])

\* span() has returned the span set on the root node, whose definiens span was
\* set as well, in a graph where a node has been constructed
C12_Witness ==
    /\ ret.op = "span" /\ ret.recv = root_node
    /\ ret.result = OkValue("Span", MkSpan(1, 2))
    /\ history.attached[root_node].definiens_span # None
    /\ Len(graph.nodes) = 3

\* C13: for every node, an attachment the script has never set on it reads
\* back as absent (nil), whatever else was set on this node or on other nodes.
C13_UnsetReadsAbsent ==
    \A n \in NodeProxies :
        LET a == history.attached[n] IN
        /\ a.span = None => span(graph, borrow, n).ret = OkNil
        /\ a.definiens_span = None => definiens_span(graph, borrow, n).ret = OkNil
        /\ a.syntax_type = None => syntax_type(graph, borrow, n).ret = OkNil
        /\ a.debug = <<>> => debug_info(graph, borrow, n).ret = OkNil

\* C14: for every node, debug_info() returns a table that holds every
\* (key, value) pair the script has added with set_debug_info, several pairs
\* under one key included.
C14_DebugInfoHasAllEntries ==
    \A n \in NodeProxies :
        LET added == history.attached[n].debug
            r == debug_info(graph, borrow, n).ret
        IN added # <<>> =>
              /\ r.status = "Ok" /\ r.type = "Table"
              /\ \A i \in 1..Len(added) :
                    /\ added[i][1] \in DOMAIN r.value
                    /\ r.value[added[i][1]] = added[i][2]

\* C15: graph:file(name) is idempotent: over all the lookups made, one name
\* always got the same file and two names never got the same file; a further
\* lookup of a name looked up before returns that file again and leaves the
\* graph, and with it the file's nodes and next local id, as they are.
C15_FileIdempotent ==
    /\ \A p \in history.files, q \in history.files : (p.name = q.name) <=> (p.file = q.file)
    /\ can_borrow_mut(borrow) =>
          \A p \in history.files :
              LET out == file(graph, borrow, p.name) IN
              /\ out.ret = OkFile(p.file)
              /\ out.graph = graph
              /\ file_nodes_all(out.graph, out.borrow, p.file) = file_nodes_all(graph, borrow, p.file)
              /\ new_node_id(out.graph, p.file) = new_node_id(graph, p.file)

\* the first of two names has been looked up again, after the second file was
\* created and after a node was constructed in the first file, and the first
\* file was returned
C15_Witness ==
    /\ ret.op = "file" /\ ret.result = OkFile(1)
    /\ Cardinality(history.files) = 2
    /\ ReturnedBy(1) # <<>>

StatedKind(op) ==
    CASE op = "definition_node" -> "pop_symbol"
      [] op = "pop_symbol_node" -> "pop_symbol"
      [] op = "scoped_definition_node" -> "pop_scoped_symbol"
      [] op = "pop_scoped_symbol_node" -> "pop_scoped_symbol"
      [] op = "reference_node" -> "push_symbol"
      [] op = "push_symbol_node" -> "push_symbol"
      [] op = "scoped_reference_node" -> "push_scoped_symbol"
      [] op = "push_scoped_symbol_node" -> "push_scoped_symbol"
      [] op = "exported_scope_node" -> "scope"
      [] op = "internal_scope_node" -> "scope"
      [] op = "drop_scopes_node" -> "drop_scopes"

StatedFlag(op) ==
    op \in {"definition_node", "scoped_definition_node", "reference_node",
            "scoped_reference_node", "exported_scope_node"}

ConstructionCalls ==
    {"definition_node", "pop_symbol_node", "scoped_definition_node",
     "pop_scoped_symbol_node", "reference_node", "push_symbol_node",
     "scoped_reference_node", "push_scoped_symbol_node", "exported_scope_node",
     "internal_scope_node", "drop_scopes_node"}

ForAllConstructions(P(_)) ==
    /\ \A f \in FileProxies, symbol \in SymbolNames :
          /\ P(definition_node(graph, borrow, f, symbol))
          /\ P(pop_scoped_symbol_node(graph, borrow, f, symbol))
          /\ P(pop_symbol_node(graph, borrow, f, symbol))
          /\ P(push_symbol_node(graph, borrow, f, symbol))
          /\ P(reference_node(graph, borrow, f, symbol))
          /\ P(scoped_definition_node(graph, borrow, f, symbol))
    /\ \A f \in FileProxies :
          /\ P(drop_scopes_node(graph, borrow, f))
          /\ P(exported_scope_node(graph, borrow, f))
          /\ P(internal_scope_node(graph, borrow, f))
    /\ \A scope \in NodeProxies : ForAllScopedCalls(scope, P)

\* C20: node handles are assigned in creation order, whatever the file and
\* the kind: the handles returned so far increase strictly from call to call
\* and lie above the two singletons, and every construction call that succeeds
\* now returns the previous node count, which is above every handle in use.
C20_HandlesIncrease ==
    /\ ROOT_NODE_HANDLE = 1 /\ JUMP_TO_NODE_HANDLE = 2
    /\ StrictlyIncreasing(<<root_node, jump_to_node>> \o ReturnedNodes(1, Len(returned)))
    /\ ForAllConstructions(LAMBDA out :
          out.ret.status = "Ok" =>
              /\ out.ret.handle = ArenaLen(graph.nodes)
              /\ \A n \in NodeProxies : n < out.ret.handle
              /\ ArenaLen(out.graph.nodes) = ArenaLen(graph.nodes) + 1)

\* two construction calls of different kinds on two different files have
\* returned the handles 3 and 4
C20_Witness ==
    /\ Len(returned) = 2
    /\ returned[1].node = 3 /\ returned[2].node = 4
    /\ returned[1].file # returned[2].file
    /\ graph.nodes[3].kind # graph.nodes[4].kind

MaxGrowOps == 3

\* growth: files, definition nodes and edge insertions in both directions,
\* with the edges of a node listed in between
NextGrow ==
    \/ file_call
    \/ definition_node_call(MaxGrowOps - EdgeCount(graph))
    \/ add_edge_from_within(MaxGrowOps - (Len(graph.nodes) - 2))
    \/ add_edge_to_within(MaxGrowOps - (Len(graph.nodes) - 2))
    \/ outgoing_edges_call

SpecGrow == Init /\ [][NextGrow]_vars

\* C21: the graph only grows: no call lowers the node count, drops a stored
\* edge or changes a node already in the graph, so a handle a construction
\* call has returned keeps denoting the node of the same file, kind and local
\* id, and calls on it (local_id, outgoing_edges) succeed after any further
\* call.
C21_GraphOnlyGrows ==
    [][/\ Len(graph'.nodes) >= Len(graph.nodes)
       /\ \A n \in 1..Len(graph.nodes) :
             /\ graph'.nodes[n] = graph.nodes[n]
             /\ Range(outgoing_edges(graph, n)) \subseteq Range(outgoing_edges(graph', n))
       /\ \A i \in 1..Len(returned) :
             /\ returned'[i] = returned[i]
             /\ graph'.nodes[returned[i].node].file = returned[i].file
             /\ can_borrow(borrow') =>
                   /\ local_id(graph', borrow', returned[i].node).ret
                         = Result("Ok", "Integer", returned[i].local_id, NoEdge)
                   /\ node_outgoing_edges(graph', borrow', returned[i].node).ret.status = "Ok"]_vars

\* outgoing_edges() has been called on a constructed node after two edge
\* insertions and returned an edge
C21_Witness ==
    /\ Len(returned) = 1
    /\ Cardinality(history.edges) = 2
    /\ ret.op = "outgoing_edges" /\ ret.recv = returned[1].node
    /\ ret.result.status = "Ok" /\ ret.result.edges # <<>>

\* the handles up to `upto` a loop over receiver recv is to yield, in handle
\* order: all of them for the graph (recv = 0), those of the file otherwise
HandlesFor(recv, upto) ==
    SelectSeq([h \in 1..upto |-> h],
              LAMBDA h : recv = 0 \/ graph.nodes[h].file = recv)

\* C25: with nodes constructed between the steps of a graph:nodes() or
\* file:nodes() loop, every step succeeds, the handles yielded so far are, in
\* increasing order and without gap or repetition, the first nodes of the
\* graph (of the file), and when a step reports exhaustion every node that
\* exists at that step (and is in the file) has been yielded exactly once.
C25_LoopToleratesGrowth ==
    /\ ret.op = "nodes_step" => ret.result.status = "Ok"
    /\ iter.recv >= 0 =>
          LET all == HandlesFor(iter.recv, Len(graph.nodes)) IN
          /\ StrictlyIncreasing(iter.yielded)
          /\ Len(iter.yielded) <= Len(all)
          /\ iter.yielded = SubSeq(all, 1, Len(iter.yielded))
          /\ iter.exhausted => iter.yielded = HandlesFor(iter.recv, 2 + iter.seen)

\* a file loop begun before any node was constructed has ended after
\* yielding two nodes constructed while it was in flight
C25_Witness ==
    /\ iter.recv > 0 /\ iter.started = 0
    /\ iter.exhausted /\ iter.seen = 3
    /\ Len(iter.yielded) = 2
    /\ ret.op = "nodes_step"

\* the control values a loop can hold: nil or a node of the graph
ControlValues == {None} \cup {Some(n) : n \in NodeProxies}

\* C26: every step of file:nodes() terminates: from any control value its
\* skipping loop examines at most the handles up to the node count and ends
\* with a node of the file or with nil. A graph or file loop over an
\* unchanging graph reports exhaustion within (node count) calls of the
\* iterator function, having yielded at most one handle per node; on a graph
\* of the two singletons a file loop reports exhaustion on its first step.
C26_LoopsTerminate ==
    can_borrow(borrow) =>
        LET node_count == ArenaLen(graph.nodes) IN
        /\ \A f \in FileProxies, prev_node \in ControlValues :
              LET prev_index == prev_index_of(prev_node)
                  r == file_nodes_step(graph, borrow, f, prev_node).ret
              IN /\ file_nodes_scan_visits(graph, f, prev_index + 1, node_count)
                       <= node_count - prev_index
                 /\ r.status = "Ok"
                 /\ r.type = "Node" =>
                       /\ prev_index < r.handle /\ r.handle < node_count
                       /\ graph.nodes[r.handle].file = f
        /\ LET loop == graph_nodes_all(graph, borrow)
           IN /\ loop.ends = "exhausted"
              /\ Len(loop.yielded) <= Len(graph.nodes)
              /\ Len(loop.yielded) + 1 <= node_count
        /\ \A f \in FileProxies :
              LET loop == file_nodes_all(graph, borrow, f)
              IN /\ loop.ends = "exhausted"
                 /\ Len(loop.yielded) <= Len(graph.nodes)
                 /\ Len(loop.yielded) + 1 <= node_count
        /\ (iter.recv >= 0 /\ iter.exhausted /\ iter.started = iter.seen) =>
              Len(iter.yielded) + 1 <= 2 + iter.seen + 1
        /\ Len(graph.nodes) = 2 =>
              \A f \in FileProxies : file_nodes_step(graph, borrow, f, None).ret = OkNil

\* a file loop over an unchanging graph of two constructed nodes has ended
\* after skipping the node of the other file
C26_Witness ==
    /\ iter.recv > 0 /\ iter.exhausted
    /\ iter.started = 2 /\ iter.seen = 2 /\ Len(returned) = 2
    /\ Len(iter.yielded) = 1
    /\ ret.op = "nodes_step" /\ ret.result = OkNil

\* C27: the "Node ID collision" abort is unreachable: no call has ended in
\* it, in every reachable state the identifier new_node_id allocates for any
\* file is the identifier of no node of the graph, and none of the eleven
\* construction calls, on any file and with any operands, would end in it.
C27_NoIdCollision ==
    /\ ret.result.status # "Panic"
    /\ \A f \in FileProxies :
          LET id == new_node_id(graph, f) IN
          /\ handle_for_id(graph, id) = 0
          /\ \A n \in NodeProxies : node_id(graph.nodes[n]) # id
    /\ \A i, j \in 1..Len(returned) :
          (i # j /\ returned[i].file = returned[j].file)
              => returned[i].local_id # returned[j].local_id
    /\ ForAllConstructions(LAMBDA out : out.ret.status # "Panic")

\* a second node has been constructed in a file that already had one
C27_Witness ==
    /\ Len(returned) = 2
    /\ returned[1].file = returned[2].file
    /\ returned[1].local_id = 0 /\ returned[2].local_id = 1
    /\ ret.op = "push_scoped_symbol_node" /\ ret.result.status = "Ok"

\* what a script reads from node m: span, definiens span, syntax type, debug info
Reads(g, b, m) ==
    <<span(g, b, m).ret, definiens_span(g, b, m).ret,
      syntax_type(g, b, m).ret, debug_info(g, b, m).ret>>

\* the position in Reads of the attachment a setter writes (0 for other calls)
OwnRead(op) ==
    CASE op = "set_span" -> 1
      [] op = "set_definiens_span" -> 2
      [] op = "set_syntax_type" -> 3
      [] op = "set_debug_info" -> 4
      [] OTHER -> 0

\* C29: a successful set_span, set_definiens_span, set_syntax_type or
\* set_debug_info call on node n changes only that attachment of n: the
\* nodes (file, kind, local id) and the edges are the same before and after,
\* and so is every other attachment read from n and every attachment read
\* from any other node, absent ones included.
C29_SettersChangeOnlyTheirAttachment ==
    [][(OwnRead(ret'.op) # 0 /\ ret'.result.status = "Ok") =>
          /\ graph'.nodes = graph.nodes
          /\ graph'.outgoing_edges = graph.outgoing_edges
          /\ \A m \in NodeProxies, i \in 1..4 :
                (m # ret'.recv \/ i # OwnRead(ret'.op))
                    => Reads(graph', borrow', m)[i] = Reads(graph, borrow, m)[i]]_vars

\* ------------------------------------------- calls on proxies, two graphs
MaxProxyOps == 2

\* the inputs of the calls on proxies
ProxyFileNames == {"test.py"}
ProxyPrecedenceArgs == {None}

\* a second graph of the same Lua state, on which graph_b:file("lib.py") has
\* been called and nothing else
other_graph == file(NewStackGraph, 0, "lib.py").graph

\* the graph each graph userdata holds, and its borrow flag
Graphs == [graph_ud \in GraphUds |-> IF graph_ud = "graph_a" THEN graph ELSE other_graph]
Borrows == [graph_ud \in GraphUds |-> IF graph_ud = "graph_a" THEN borrow ELSE 0]

\* the proxies of one graph a script can hold
FileUds(graph_ud) == {file_ud_of(graph_ud, f) : f \in 1..Len(Graphs[graph_ud].files)}
NodeUds(graph_ud) == {node_ud_of(graph_ud, n) : n \in 1..Len(Graphs[graph_ud].nodes)}
EdgeUds(graph_ud) == IF EdgeCount(Graphs[graph_ud]) > 0 THEN {edge_ud_of(graph_ud)} ELSE {}
ProxiesOf(graph_ud) ==
    {graph_ud_of(graph_ud)} \cup FileUds(graph_ud) \cup NodeUds(graph_ud) \cup EdgeUds(graph_ud)

\* every userdata a script can pass as an operand
Operands == UNION {ProxiesOf(graph_ud) : graph_ud \in GraphUds}

\* a call on a proxy of graph_a or graph_b: receiver, operand and the proxy
\* returned are recorded; what it constructs is recorded as Construct,
\* InsertEdge and Lookup record it
CallUd(op, this_ud, operand_ud, precedence, out, looked_up) ==
    LET grew == Len(out.graphs["graph_a"].nodes) > Len(graph.nodes) IN
    /\ graph' = out.graphs["graph_a"]
    /\ borrow' = out.borrows["graph_a"]
    /\ ret' = [op |-> op, recv |-> this_ud, operand |-> operand_ud,
               precedence |-> precedence, result |-> out.ret, ud |-> out.ud]
    /\ returned' = IF grew
                   THEN Append(returned,
                               [node |-> out.ret.handle, file |-> this_ud.handle,
                                local_id |-> out.graphs["graph_a"].nodes[out.ret.handle].local_id])
                   ELSE returned
    /\ history' = [history EXCEPT
                      !.attached = IF grew THEN Append(@, NoAttachment) ELSE @,
                      !.edges = IF out.ret.status = "Ok" /\ out.ret.type = "Edge"
                                THEN @ \cup {out.ret.edge} ELSE @,
                      !.files = IF out.ret.status = "Ok" THEN @ \cup looked_up ELSE @]
    /\ UNCHANGED <<host, iter, iter2>>

CanGrow == (Len(graph.nodes) - 2) + EdgeCount(graph) < MaxProxyOps

graph_file_ud_call ==
    \E name \in ProxyFileNames :
        LET out == graph_file_ud(Graphs, Borrows, "graph_a", name)
        IN CallUd("file", graph_ud_of("graph_a"), NoProxy, None, out,
                  {[name |-> name, file |-> out.ret.handle]})

definition_node_ud_call ==
    /\ CanGrow
    /\ \E this_ud \in FileUds("graph_a"), symbol \in SymbolNames :
          CallUd("definition_node", this_ud, NoProxy, None,
                 definition_node_ud(Graphs, Borrows, this_ud, symbol), {})

exported_scope_node_ud_call ==
    /\ CanGrow
    /\ \E this_ud \in FileUds("graph_a") :
          CallUd("exported_scope_node", this_ud, NoProxy, None,
                 exported_scope_node_ud(Graphs, Borrows, this_ud), {})

push_scoped_symbol_node_ud_call ==
    /\ CanGrow
    /\ \E this_ud \in FileUds("graph_a"), symbol \in SymbolNames, scope_ud \in Operands :
          CallUd("push_scoped_symbol_node", this_ud, scope_ud, None,
                 push_scoped_symbol_node_ud(Graphs, Borrows, this_ud, symbol, scope_ud), {})

scoped_reference_node_ud_call ==
    /\ CanGrow
    /\ \E this_ud \in FileUds("graph_a"), symbol \in SymbolNames, scope_ud \in Operands :
          CallUd("scoped_reference_node", this_ud, scope_ud, None,
                 scoped_reference_node_ud(Graphs, Borrows, this_ud, symbol, scope_ud), {})

add_edge_from_ud_call ==
    /\ CanGrow
    /\ \E this_ud \in NodeUds("graph_a"), from_ud \in Operands, precedence_arg \in ProxyPrecedenceArgs :
          CallUd("add_edge_from", this_ud, from_ud, precedence_arg,
                 add_edge_from_ud(Graphs, Borrows, this_ud, from_ud, precedence_arg), {})

add_edge_to_ud_call ==
    /\ CanGrow
    /\ \E this_ud \in NodeUds("graph_a"), to_ud \in Operands, precedence_arg \in ProxyPrecedenceArgs :
          CallUd("add_edge_to", this_ud, to_ud, precedence_arg,
                 add_edge_to_ud(Graphs, Borrows, this_ud, to_ud, precedence_arg), {})

\* the control values a script can pass: nil or a node proxy of either graph
Controls == {None} \cup {Some(ud) : ud \in UNION {NodeUds(graph_ud) : graph_ud \in GraphUds}}

\* the iterator functions called by hand, with any control value
graph_nodes_step_ud_call ==
    \E graph_ud \in GraphUds, prev_node_ud \in Controls :
        CallUd("graph_nodes_step", graph_ud_of(graph_ud),
               IF prev_node_ud = None THEN NoProxy ELSE prev_node_ud[1], None,
               graph_nodes_step_ud(Graphs, Borrows, graph_ud, prev_node_ud), {})

file_nodes_step_ud_call ==
    \E graph_ud \in GraphUds :
        \E this_ud \in FileUds(graph_ud), prev_node_ud \in Controls :
            CallUd("file_nodes_step", this_ud,
                   IF prev_node_ud = None THEN NoProxy ELSE prev_node_ud[1], None,
                   file_nodes_step_ud(Graphs, Borrows, this_ud, prev_node_ud), {})

\* proxies: the calls that take or return userdata, on the proxies of two
\* graphs, with the host borrowing graph_a exclusively between calls
NextProxies ==
    \/ graph_file_ud_call
    \/ definition_node_ud_call
    \/ exported_scope_node_ud_call
    \/ push_scoped_symbol_node_ud_call
    \/ scoped_reference_node_ud_call
    \/ add_edge_from_ud_call
    \/ add_edge_to_ud_call
    \/ graph_nodes_step_ud_call
    \/ file_nodes_step_ud_call
    \/ HostBorrowMut
    \/ HostRelease

SpecProxies == Init /\ [][NextProxies]_vars

\* the proxy a call returned, if any, names graph userdata graph_ud, and a
\* call that returned a file, node or edge returned a proxy
LinkedTo(out, graph_ud) ==
    /\ out.ud # None => user_value(out.ud[1]) = graph_ud
    /\ (out.ret.status = "Ok" /\ out.ret.type # "Nil") => out.ud # None

NodeOperandOps ==
    {"add_edge_from", "add_edge_to", "push_scoped_symbol_node", "scoped_reference_node",
     "graph_nodes_step", "file_nodes_step"}

\* C23: a node handle is resolved only against the graph that produced it:
\* a call whose node operand (the other end of add_edge_from / add_edge_to,
\* the scope of a scoped push or reference, the control value of a nodes()
\* step) is linked to another graph than the receiver ends in an error, and
\* no node or edge comes of it.
C23_ForeignHandleNotResolved ==
    (/\ ret.op \in NodeOperandOps
     /\ ret.operand.type = "Node"
     /\ user_value(ret.operand) # user_value(ret.recv))
        => /\ ret.result.status # "Ok"
           /\ ret.ud = None

\* the calls whose operand must be a node: the edge insertions and the
\* scoped constructions
EndpointOps ==
    {"add_edge_from", "add_edge_to", "push_scoped_symbol_node", "scoped_reference_node"}

\* C24: a file, edge or graph proxy passed where add_edge_from, add_edge_to,
\* push_scoped_symbol_node or scoped_reference_node expects a node is
\* answered with a type error and the graphs and borrow flags are as before,
\* also while the graph is exclusively borrowed elsewhere: the operand is
\* looked at before the graph is borrowed or changed.
C24_WrongKindOperandRejected ==
    /\ (ret.op \in EndpointOps /\ ret.operand.type # "Node") =>
          ret.result = Err("UserDataTypeMismatch") /\ ret.ud = None
    /\ \A other_ud \in Operands :
          other_ud.type # "Node" =>
            /\ \A this_ud \in NodeUds("graph_a"), precedence_arg \in ProxyPrecedenceArgs :
                  /\ add_edge_from_ud(Graphs, Borrows, this_ud, other_ud, precedence_arg)
                        = TypeMismatch(Graphs, Borrows)
                  /\ add_edge_to_ud(Graphs, Borrows, this_ud, other_ud, precedence_arg)
                        = TypeMismatch(Graphs, Borrows)
            /\ \A this_ud \in FileUds("graph_a"), symbol \in SymbolNames :
                  /\ push_scoped_symbol_node_ud(Graphs, Borrows, this_ud, symbol, other_ud)
                        = TypeMismatch(Graphs, Borrows)
                  /\ scoped_reference_node_ud(Graphs, Borrows, this_ud, symbol, other_ud)
                        = TypeMismatch(Graphs, Borrows)

\* scoped_reference_node has been given a file proxy as its scope in a graph
\* with an edge, and the graph is exclusively borrowed
C24_Witness ==
    /\ ret.op = "scoped_reference_node" /\ ret.operand.type = "File"
    /\ ret.result = Err("UserDataTypeMismatch")
    /\ EdgeCount(graph) = 1
    /\ host = -1 /\ ~can_borrow_mut(borrow)

\* ------------------------------------------------- two loops in flight
MaxLoopNodes == 2

\* a second loop is started and stepped as the first one is
second_graph_nodes_call ==
    /\ iter2.recv = -1 \/ iter2.exhausted
    /\ iter2' = [Idle EXCEPT !.recv = 0, !.started = Len(returned)]
    /\ ret' = Call("nodes", 0, 0, None, OkNil)
    /\ UNCHANGED <<graph, borrow, host, returned, iter, history>>

second_file_nodes_call ==
    /\ iter2.recv = -1 \/ iter2.exhausted
    /\ \E f \in FileProxies :
          /\ iter2' = [Idle EXCEPT !.recv = f, !.started = Len(returned)]
          /\ ret' = Call("nodes", f, 0, None, OkNil)
    /\ UNCHANGED <<graph, borrow, host, returned, iter, history>>

StepSecond(out) ==
    /\ graph' = out.graph
    /\ borrow' = out.borrow
    /\ ret' = Call("nodes_step", iter2.recv, prev_index_of(iter2.control), None, out.ret)
    /\ iter2' = IF out.ret.status # "Ok" THEN iter2
                ELSE IF out.ret.type = "Nil"
                     THEN [iter2 EXCEPT !.exhausted = TRUE, !.seen = Len(returned)]
                     ELSE [iter2 EXCEPT !.control = Some(out.ret.handle),
                                        !.yielded = Append(@, out.ret.handle)]
    /\ UNCHANGED <<host, returned, iter, history>>

second_graph_nodes_step_call ==
    /\ iter2.recv = 0 /\ ~iter2.exhausted
    /\ StepSecond(graph_nodes_step(graph, borrow, iter2.control))

second_file_nodes_step_call ==
    /\ iter2.recv > 0 /\ ~iter2.exhausted
    /\ StepSecond(file_nodes_step(graph, borrow, iter2.recv, iter2.control))

\* two loops: files, definition nodes and two nodes() loops stepped in any
\* interleaving
NextLoops ==
    \/ file_call
    \/ definition_node_call(MaxLoopNodes)
    \/ graph_nodes_call
    \/ graph_nodes_step_call
    \/ file_nodes_call
    \/ file_nodes_step_call
    \/ second_graph_nodes_call
    \/ second_graph_nodes_step_call
    \/ second_file_nodes_call
    \/ second_file_nodes_step_call

SpecLoops == Init /\ [][NextLoops]_vars

\* a loop over receiver recv run alone on the graph as it is now
Alone(recv) ==
    IF recv = 0 THEN graph_nodes_all(graph, borrow) ELSE file_nodes_all(graph, borrow, recv)

\* the loop has yielded what a loop run alone yields first, and all of it
\* once it has ended with no node constructed since
YieldsAsAlone(loop) ==
    loop.recv >= 0 =>
        LET alone == Alone(loop.recv).yielded IN
        /\ Len(loop.yielded) <= Len(alone)
        /\ loop.yielded = SubSeq(alone, 1, Len(loop.yielded))
        /\ (loop.exhausted /\ loop.seen = Len(returned)) => loop.yielded = alone

IsPrefix(s, t) == Len(s) <= Len(t) /\ s = SubSeq(t, 1, Len(s))

\* C28: a step depends on the graph, the receiver and the control value
\* only: of two loops stepped in any interleaving each yields what a loop
\* over its receiver yields when run alone, two loops over the same receiver
\* yield the same nodes in the same order as far as both have come, and the
\* step just made, repeated with the same control value on the unchanged
\* graph, returns the same result.
C28_StepsDependOnControlOnly ==
    /\ YieldsAsAlone(iter)
    /\ YieldsAsAlone(iter2)
    /\ (iter.recv >= 0 /\ iter.recv = iter2.recv) =>
          IsPrefix(iter.yielded, iter2.yielded) \/ IsPrefix(iter2.yielded, iter.yielded)
    /\ ret.op = "nodes_step" =>
          LET prev_node == IF ret.operand = 0 THEN None ELSE Some(ret.operand)
              again == IF ret.recv = 0
                       THEN graph_nodes_step(graph, borrow, prev_node)
                       ELSE file_nodes_step(graph, borrow, ret.recv, prev_node)
          IN again.ret = ret.result /\ again.graph = graph /\ again.borrow = borrow

\* two loops over the whole graph in flight, the second one node behind the
\* first, which has just been stepped
C28_Witness ==
    /\ iter.recv = 0 /\ iter2.recv = 0
    /\ ~iter.exhausted /\ ~iter2.exhausted
    /\ iter.yielded = <<1, 2, 3>> /\ iter2.yielded = <<1, 2>>
    /\ ret.op = "nodes_step" /\ ret.result = OkNode(3)
====
